---- MODULE Spec2Model ----
(***************************************************************************)
(* Model of the keyboard shortcut manager (KeyboardShortcutManager), its   *)
(* key-combination parser/formatter/matcher and the useKeyboardShortcuts   *)
(* hook.  Strings that the code takes apart (key texts, key names) are     *)
(* sequences of one-character strings; opaque strings (component ids,      *)
(* tag names, callback names) are TLA+ strings.                            *)
(***************************************************************************)
EXTENDS Integers, Sequences, FiniteSets, TLC

(***************************************************************************)
(* String primitives used by the parser and the formatter.                 *)
(***************************************************************************)
LowerAlpha == <<"a","b","c","d","e","f","g","h","i","j","k","l","m","n","o","p","q","r","s","t","u","v","w","x","y","z">>
UpperAlpha == <<"A","B","C","D","E","F","G","H","I","J","K","L","M","N","O","P","Q","R","S","T","U","V","W","X","Y","Z">>

\* String.prototype.toLowerCase / toUpperCase on one character
UpperLetters == {UpperAlpha[i] : i \in 1..26}
LowerLetters == {LowerAlpha[i] : i \in 1..26}

LowerChar(c) ==
  IF c \in UpperLetters
    THEN LowerAlpha[CHOOSE i \in 1..26 : UpperAlpha[i] = c]
    ELSE c

UpperChar(c) ==
  IF c \in LowerLetters
    THEN UpperAlpha[CHOOSE i \in 1..26 : LowerAlpha[i] = c]
    ELSE c

toLowerCase(s) == [i \in 1..Len(s) |-> LowerChar(s[i])]

toUpperCase(s) == [i \in 1..Len(s) |-> UpperChar(s[i])]

\* String.prototype.trim (the only white space of the model is " ")
RECURSIVE TrimLeft(_)
TrimLeft(s) ==
  IF s # <<>> /\ Head(s) = " " THEN TrimLeft(Tail(s)) ELSE s

RECURSIVE TrimRight(_)
TrimRight(s) ==
  IF s # <<>> /\ s[Len(s)] = " " THEN TrimRight(SubSeq(s, 1, Len(s) - 1)) ELSE s

trim(s) == TrimRight(TrimLeft(s))

\* String.prototype.split('+'): cur is the part being read, acc the parts read
RECURSIVE SplitAcc(_, _, _)
SplitAcc(s, cur, acc) ==
  IF s = <<>> THEN Append(acc, cur)
  ELSE IF Head(s) = "+" THEN SplitAcc(Tail(s), <<>>, Append(acc, cur))
  ELSE SplitAcc(Tail(s), Append(cur, Head(s)), acc)

split(s) == SplitAcc(s, <<>>, <<>>)

\* Array.prototype.join('+')
RECURSIVE join(_)
join(parts) ==
  IF parts = <<>> THEN <<>>
  ELSE IF Len(parts) = 1 THEN parts[1]
  ELSE parts[1] \o <<"+">> \o join(Tail(parts))

(***************************************************************************)
(* Key combination model: parseKeyString, normalizeKeyName,                *)
(* keyCombinationToString, matchesKeyCombination.                          *)
(* A KeyCombination is [key, ctrl, alt, shift, meta]; a modifier field     *)
(* holds the truthiness of the (optional) property, which is all the code  *)
(* ever reads of it.                                                       *)
(***************************************************************************)
keyMap ==
  {
    <<<<"e","s","c">>, <<"E","s","c","a","p","e">>>>,
    <<<<"e","s","c","a","p","e">>, <<"E","s","c","a","p","e">>>>,
    <<<<"e","n","t","e","r">>, <<"E","n","t","e","r">>>>,
    <<<<"r","e","t","u","r","n">>, <<"E","n","t","e","r">>>>,
    <<<<"s","p","a","c","e">>, <<" ">>>>,
    <<<<"s","p","a","c","e","b","a","r">>, <<" ">>>>,
    <<<<"t","a","b">>, <<"T","a","b">>>>,
    <<<<"b","a","c","k","s","p","a","c","e">>, <<"B","a","c","k","s","p","a","c","e">>>>,
    <<<<"d","e","l","e","t","e">>, <<"D","e","l","e","t","e">>>>,
    <<<<"d","e","l">>, <<"D","e","l","e","t","e">>>>,
    <<<<"u","p">>, <<"A","r","r","o","w","U","p">>>>,
    <<<<"d","o","w","n">>, <<"A","r","r","o","w","D","o","w","n">>>>,
    <<<<"l","e","f","t">>, <<"A","r","r","o","w","L","e","f","t">>>>,
    <<<<"r","i","g","h","t">>, <<"A","r","r","o","w","R","i","g","h","t">>>>,
    <<<<"a","r","r","o","w","u","p">>, <<"A","r","r","o","w","U","p">>>>,
    <<<<"a","r","r","o","w","d","o","w","n">>, <<"A","r","r","o","w","D","o","w","n">>>>,
    <<<<"a","r","r","o","w","l","e","f","t">>, <<"A","r","r","o","w","L","e","f","t">>>>,
    <<<<"a","r","r","o","w","r","i","g","h","t">>, <<"A","r","r","o","w","R","i","g","h","t">>>>,
    <<<<"h","o","m","e">>, <<"H","o","m","e">>>>,
    <<<<"e","n","d">>, <<"E","n","d">>>>,
    <<<<"p","a","g","e","u","p">>, <<"P","a","g","e","U","p">>>>,
    <<<<"p","a","g","e","d","o","w","n">>, <<"P","a","g","e","D","o","w","n">>>>,
    <<<<"p","g","u","p">>, <<"P","a","g","e","U","p">>>>,
    <<<<"p","g","d","n">>, <<"P","a","g","e","D","o","w","n">>>>,
    <<<<"f","1">>, <<"F","1">>>>,
    <<<<"f","2">>, <<"F","2">>>>,
    <<<<"f","3">>, <<"F","3">>>>,
    <<<<"f","4">>, <<"F","4">>>>,
    <<<<"f","5">>, <<"F","5">>>>,
    <<<<"f","6">>, <<"F","6">>>>,
    <<<<"f","7">>, <<"F","7">>>>,
    <<<<"f","8">>, <<"F","8">>>>,
    <<<<"f","9">>, <<"F","9">>>>,
    <<<<"f","1","0">>, <<"F","1","0">>>>,
    <<<<"f","1","1">>, <<"F","1","1">>>>,
    <<<<"f","1","2">>, <<"F","1","2">>>>
  }

\* keyMap[lowerKey] || key
\* keyMap is an object literal: keyMap[lowerKey] also finds the properties
\* it inherits from Object.prototype.  Two of them have a lower-case name,
\* and their values are no strings: the prototype object itself and the
\* function Object.  A value that is no string is a one-element sequence
\* holding a name of several characters, which no string is.
ObjectPrototype == << "Object.prototype" >>
ObjectFunction == << "Object" >>

inheritedProperties ==
  { << <<"_","_","p","r","o","t","o","_","_">>, ObjectPrototype >>,
    << <<"c","o","n","s","t","r","u","c","t","o","r">>, ObjectFunction >> }

\* keyMap[lowerKey] || key
\* the property names keyMap[lowerKey] finds
ownNames == {p[1] : p \in keyMap}
inheritedNames == {p[1] : p \in inheritedProperties}

normalizeKeyName(key) ==
  LET lowerKey == toLowerCase(key)
  IN IF lowerKey \in ownNames
       THEN (CHOOSE p \in keyMap : p[1] = lowerKey)[2]
     ELSE IF lowerKey \in inheritedNames
       THEN (CHOOSE p \in inheritedProperties : p[1] = lowerKey)[2]
     ELSE key

\* key.length === 1: a string of one character, or the function Object,
\* whose length property is 1 (the prototype object has no length)
lengthIsOne(key) ==
  IF key = ObjectPrototype THEN FALSE
  ELSE IF key = ObjectFunction THEN TRUE
  ELSE Len(key) = 1

\* key.toLowerCase() and key.toUpperCase() are called on a key whose length
\* is 1: the function Object has neither method, and the call throws
caseCallThrows(key) == key = ObjectFunction

\* the string Array.prototype.join makes of an element
toStringOf(key) ==
  IF key = ObjectPrototype THEN <<"[","o","b","j","e","c","t"," ","O","b","j","e","c","t","]">>
  ELSE key

\* the value that stands for a TypeError thrown instead of a result
TypeError == << "TypeError" >>

\* String(n) of a non-negative integer
DigitChars == <<"0","1","2","3","4","5","6","7","8","9">>

RECURSIVE decimal(_)
decimal(n) ==
  IF n < 10 THEN << DigitChars[n + 1] >>
  ELSE decimal(n \div 10) \o << DigitChars[(n % 10) + 1] >>

\* String.prototype.substr(start, length), start counted from 0
substr(s, start, length) ==
  SubSeq(s, start + 1, IF start + length < Len(s) THEN start + length ELSE Len(s))

\* `shortcut_${Date.now()}_${Math.random().toString(36).substr(2, 9)}`:
\* now is the value of Date.now(), random36 the text
\* Math.random().toString(36)
generateId(now, random36) ==
  <<"s","h","o","r","t","c","u","t","_">> \o decimal(now) \o <<"_">>
    \o substr(random36, 2, 9)

CtrlTokens == { <<"c","t","r","l">>, <<"c","o","n","t","r","o","l">> }
AltTokens == { <<"a","l","t">>, <<"o","p","t","i","o","n">> }
ShiftTokens == { <<"s","h","i","f","t">> }
MetaTokens == { <<"m","e","t","a">>, <<"c","m","d">>, <<"c","o","m","m","a","n","d">>, <<"w","i","n">>, <<"w","i","n","d","o","w","s">> }

\* the switch statement of parseKeyString, applied to one part
parsePart(result, part) ==
  IF part \in CtrlTokens THEN [result EXCEPT !.ctrl = TRUE]
  ELSE IF part \in AltTokens THEN [result EXCEPT !.alt = TRUE]
  ELSE IF part \in ShiftTokens THEN [result EXCEPT !.shift = TRUE]
  ELSE IF part \in MetaTokens THEN [result EXCEPT !.meta = TRUE]
  ELSE [result EXCEPT !.key = normalizeKeyName(part)]

RECURSIVE parseParts(_, _)
parseParts(result, parts) ==
  IF parts = <<>> THEN result
  ELSE parseParts(parsePart(result, Head(parts)), Tail(parts))

\* parseKeyString without the toLowerCase of the text
parseKeyStringKeepsCase(keyString) ==
  LET lowered == split(keyString)
      parts == [i \in 1..Len(lowered) |-> trim(lowered[i])]
  IN parseParts([key |-> <<>>, ctrl |-> FALSE, alt |-> FALSE,
                 shift |-> FALSE, meta |-> FALSE], parts)

parseKeyString(keyString) ==
  LET lowered == split(toLowerCase(keyString))
      parts == [i \in 1..Len(lowered) |-> trim(lowered[i])]
  IN parseParts([key |-> <<>>, ctrl |-> FALSE, alt |-> FALSE,
                 shift |-> FALSE, meta |-> FALSE], parts)

\* keyCombinationToString throws: it calls toUpperCase on a key that is not
\* the space and whose length is 1
toUpperCaseThrows(combo) ==
  caseCallThrows(combo.key) /\ lengthIsOne(combo.key) /\ combo.key # <<" ">>

keyCombinationToString(combo) ==
  IF toUpperCaseThrows(combo)
    THEN TypeError
  ELSE
  LET parts == (IF combo.ctrl THEN << <<"C","t","r","l">> >> ELSE <<>>)
               \o (IF combo.alt THEN << <<"A","l","t">> >> ELSE <<>>)
               \o (IF combo.shift THEN << <<"S","h","i","f","t">> >> ELSE <<>>)
               \o (IF combo.meta THEN << <<"M","e","t","a">> >> ELSE <<>>)
      displayKey == IF combo.key = <<" ">> THEN <<"S","p","a","c","e">>
                    ELSE IF lengthIsOne(combo.key) THEN toUpperCase(combo.key)
                    ELSE combo.key
  IN join(Append(parts, toStringOf(displayKey)))

\* matchesKeyCombination that reads the meta flag for combo.meta alone: an
\* unset combo.ctrl asks for no ctrl key and nothing of the meta key
matchesMetaUnread(event, combo) ==
  LET eventKey == IF Len(event.key) = 1 THEN toLowerCase(event.key) ELSE event.key
      comboKey == IF Len(combo.key) = 1 THEN toLowerCase(combo.key) ELSE combo.key
      keyMatches == \/ eventKey = comboKey
                    \/ (comboKey = <<" ">> /\ event.code = "Space")
      ctrlMatches == IF combo.ctrl THEN event.ctrlKey \/ event.metaKey
                     ELSE ~event.ctrlKey
  IN keyMatches /\ ctrlMatches /\ combo.alt = event.altKey
       /\ combo.shift = event.shiftKey /\ (combo.meta => event.metaKey)

\* matchesKeyCombination with ctrl compared to the ctrl key alone
matchesCtrlKeyOnly(event, combo) ==
  LET eventKey == IF Len(event.key) = 1 THEN toLowerCase(event.key) ELSE event.key
      comboKey == IF Len(combo.key) = 1 THEN toLowerCase(combo.key) ELSE combo.key
      keyMatches == \/ eventKey = comboKey
                    \/ (comboKey = <<" ">> /\ event.code = "Space")
  IN keyMatches /\ combo.ctrl = event.ctrlKey /\ combo.alt = event.altKey
       /\ combo.shift = event.shiftKey /\ (combo.meta => event.metaKey)

\* matchesKeyCombination that takes an empty combo.key for "any key"
matchesAnyKeyWhenEmpty(event, combo) ==
  LET eventKey == IF Len(event.key) = 1 THEN toLowerCase(event.key) ELSE event.key
      comboKey == IF Len(combo.key) = 1 THEN toLowerCase(combo.key) ELSE combo.key
      keyMatches == \/ eventKey = comboKey
                    \/ comboKey = <<>>
                    \/ (comboKey = <<" ">> /\ event.code = "Space")
  IN keyMatches /\ combo.ctrl = (event.ctrlKey \/ event.metaKey)
       /\ combo.alt = event.altKey /\ combo.shift = event.shiftKey
       /\ (combo.meta => event.metaKey)

\* matchesKeyCombination throws where it calls combo.key.toLowerCase()
matchesThrows(combo) == lengthIsOne(combo.key) /\ caseCallThrows(combo.key)

matchesKeyCombination(event, combo) ==
  LET eventKey == IF lengthIsOne(event.key) THEN toLowerCase(event.key)
                  ELSE event.key
      comboKey == IF lengthIsOne(combo.key) THEN toLowerCase(combo.key)
                  ELSE combo.key
      keyMatches == \/ eventKey = comboKey
                    \/ (comboKey = <<" ">> /\ event.code = "Space")
      ctrlMatches == combo.ctrl = (event.ctrlKey \/ event.metaKey)
      altMatches == combo.alt = event.altKey
      shiftMatches == combo.shift = event.shiftKey
      metaMatches == IF combo.meta THEN event.metaKey ELSE TRUE
  IN keyMatches /\ ctrlMatches /\ altMatches /\ shiftMatches
       /\ (IF combo.meta THEN metaMatches ELSE TRUE)

(***************************************************************************)
(* Bounds of the model.                                                    *)
(***************************************************************************)
\* number of RegisteredShortcut objects ever created
MaxShortcuts == 2
\* number of definitions in one register call
MaxDefs == 2
\* number of manager calls made by the callbacks of one dispatch pass
MaxNested == 1

\* how many times a caller formats what it parsed, feeding the result back
MaxRounds == 2

\* how many listeners are subscribed at a time
MaxListeners == 3

\* the last millisecond Date.now() reaches
MaxClock == 2

(***************************************************************************)
(* State.                                                                  *)
(*                                                                         *)
(* RegisteredShortcut objects live in a heap (objs) and are named by their *)
(* reference, because enable/disable mutate them in place and a filtered   *)
(* array shares them with the array it was filtered from.  The Map         *)
(* this.shortcuts is a sequence of entries in insertion order.             *)
(*                                                                         *)
(* handleKeyDown iterates Array.from(this.shortcuts): the entries are      *)
(* copied but each entry holds a reference to the component's array.  An   *)
(* entry of snap is live while it still refers to the array that the Map   *)
(* holds for its component (register pushes onto that very array); when    *)
(* deregister, clearComponent or destroy drops that array from the Map the *)
(* entry keeps the array as it was (live = FALSE, list = its contents).    *)
(***************************************************************************)
VARIABLES
  windowDefined,   \* typeof window !== 'undefined'
  shortcuts,       \* this.shortcuts
  objs,            \* heap of RegisteredShortcut objects
  nextId,          \* reference of the next object created
  isListening,     \* this.isListening
  attached,        \* the window's keydown listeners, in the order added
  eventListeners,  \* this.eventListeners, in insertion order
  pc,              \* "idle", "returned" (a call has just returned),
                   \* "threw" (a call has just ended with the exception of
                   \* a listener) or "dispatch" (handleKeyDown is running)
  event,           \* the KeyboardEvent being handled
  snap,            \* Array.from(this.shortcuts) of the running handleKeyDown
  oi,              \* index of the snap entry being iterated
  si,              \* index in that entry's array of the next shortcut
  hooks,           \* useKeyboardShortcuts instances: their lifecycle status
  emitted,         \* history: the events passed to emit by the last step
  delivered,       \* history: listener invocations made by the last step
  observed,        \* history: what each invoked listener could read
  lastCall,        \* history: the manager call made by the last step
  trace,           \* history: what the running pass did with each shortcut
  nested,          \* history: manager calls made by callbacks in this pass
  startView,       \* history: the Map's contents when the pass started
  cleared,         \* history: objects removed by clearComponent
  startCleared,    \* history: cleared, when the pass started
  keyString,       \* the text a caller of parseKeyString holds
  parsed,          \* the KeyCombination parseKeyString returned for it
  formatted,       \* the strings keyCombinationToString has returned
  ppc,             \* that caller's position: "none", "text", "parsed",
                   \* "formatted" or "threw"
  generated,       \* history: the id generateId returned for each object
  clock            \* the last value Date.now() returned

vars ==
  << windowDefined, shortcuts, objs, nextId, isListening, attached,
     eventListeners, pc, event, snap, oi, si, hooks, emitted, delivered,
     observed, lastCall, trace, nested, startView, cleared, startCleared,
     keyString, parsed, formatted, ppc, generated, clock >>

hookVars == << hooks >>

parseVars == << keyString, parsed, formatted, ppc >>

idVars == << generated, clock >>

managerVars ==
  << windowDefined, shortcuts, objs, nextId, isListening, attached,
     eventListeners, pc, event, snap, oi, si, emitted, delivered, observed,
     lastCall, trace, nested, startView, cleared, startCleared, generated, clock >>

(***************************************************************************)
(* The manager's operations, as functions of the manager state M:          *)
(* [shortcuts, objs, nextId, isListening, attached, eventListeners, snap,  *)
(*  emitted, delivered, observed, cleared, threw]; threw tells that the    *)
(* operation ended with an exception instead of returning.                 *)
(***************************************************************************)
\* Map.prototype.has / get / set / delete on the sequence of entries
MapHas(m, componentId) ==
  \E i \in 1..Len(m) : m[i].componentId = componentId

MapGet(m, componentId) ==
  m[CHOOSE i \in 1..Len(m) : m[i].componentId = componentId].list

MapSet(m, componentId, list) ==
  IF MapHas(m, componentId)
    THEN [i \in 1..Len(m) |->
            IF m[i].componentId = componentId
              THEN [componentId |-> componentId, list |-> list]
              ELSE m[i]]
    ELSE Append(m, [componentId |-> componentId, list |-> list])

MapDelete(m, componentId) ==
  SelectSeq(m, LAMBDA e : e.componentId # componentId)

\* the array a snap entry refers to
SnapList(m, e) ==
  IF e.live THEN MapGet(m, e.componentId) ELSE e.list

\* the Map drops the array of componentId: entries of snap that refer to it
\* keep it as it is now
Detach(M, componentId) ==
  [M EXCEPT !.snap =
     [i \in 1..Len(M.snap) |->
        IF M.snap[i].live /\ M.snap[i].componentId = componentId
          THEN [componentId |-> componentId, live |-> FALSE,
                list |-> MapGet(M.shortcuts, componentId)]
          ELSE M.snap[i]]]

\* window.addEventListener('keydown', handler): a listener the target
\* already has is not added again
addEventListener(listeners, handler) ==
  IF \E i \in 1..Len(listeners) : listeners[i] = handler THEN listeners
  ELSE Append(listeners, handler)

\* window.removeEventListener('keydown', handler)
removeEventListener(listeners, handler) ==
  SelectSeq(listeners, LAMBDA h : h # handler)

\* this.handleKeyDown, bound once by the constructor
handleKeyDown == "handleKeyDown"

startListening(M) ==
  IF ~M.isListening /\ M.windowDefined
    THEN [M EXCEPT !.attached = addEventListener(@, handleKeyDown),
                   !.isListening = TRUE]
    ELSE M

\* stopListening that clears the flag and leaves the handler on the window
stopListeningKeepsHandler(M) ==
  IF M.isListening /\ M.windowDefined
    THEN [M EXCEPT !.isListening = FALSE]
    ELSE M

stopListening(M) ==
  IF M.isListening /\ M.windowDefined
    THEN [M EXCEPT !.attached = removeEventListener(@, handleKeyDown),
                   !.isListening = FALSE]
    ELSE M

\* the Map's contents, by value
View(m, o) ==
  [i \in 1..Len(m) |->
     [componentId |-> m[i].componentId,
      list |-> [k \in 1..Len(m[i].list) |->
                  [ref |-> m[i].list[k], shortcut |-> o[m[i].list[k]]]]]]

\* what a listener does when it is invoked: it returns, it throws, or it
\* calls the unsubscribe function of target and returns
ListenerDoes(listener) ==
  CASE listener = "LThrows" -> [kind |-> "throws", target |-> ""]
    [] listener = "LOnce" -> [kind |-> "unsubscribes", target |-> "LOnce"]
    [] listener = "LDropsL2" -> [kind |-> "unsubscribes", target |-> "L2"]
    [] OTHER -> [kind |-> "returns", target |-> ""]

\* the position of listener in the Set's insertion order, 0 when absent
PositionOf(listeners, listener) ==
  IF \E i \in 1..Len(listeners) : listeners[i] = listener
    THEN CHOOSE i \in 1..Len(listeners) : listeners[i] = listener
    ELSE 0

\* what a listener can read of the manager while it runs
Readable(M) ==
  [shortcuts |-> View(M.shortcuts, M.objs), isListening |-> M.isListening]

\* forEach with a try/catch around each listener: the exception of one
\* listener is dropped and the listeners after it are invoked
RECURSIVE forEachListenerIsolated(_, _, _)
forEachListenerIsolated(M, ev, i) ==
  IF i > Len(M.eventListeners) THEN M
  ELSE
    LET listener == M.eventListeners[i]
        does == ListenerDoes(listener)
        M1 == [M EXCEPT !.delivered = Append(@, [listener |-> listener,
                                                 event |-> ev]),
                        !.observed = Append(@, Readable(M))]
        at == PositionOf(M.eventListeners, does.target)
        M2 == [M1 EXCEPT !.eventListeners =
                 SelectSeq(@, LAMBDA l : l # does.target)]
    IN IF does.kind = "unsubscribes"
         THEN forEachListenerIsolated(M2, ev, IF at >= 1 /\ at <= i THEN i ELSE i + 1)
       ELSE forEachListenerIsolated(M1, ev, i + 1)

\* Set.prototype.forEach from the i-th listener on: an element deleted
\* before it is visited is not visited; the exception of a listener leaves
\* forEach, emit and the operation, whose last statement emit is
RECURSIVE forEachListener(_, _, _)
forEachListener(M, ev, i) ==
  IF i > Len(M.eventListeners) THEN M
  ELSE
    LET listener == M.eventListeners[i]
        does == ListenerDoes(listener)
        M1 == [M EXCEPT !.delivered = Append(@, [listener |-> listener,
                                                 event |-> ev]),
                        !.observed = Append(@, Readable(M))]
        at == PositionOf(M.eventListeners, does.target)
        M2 == [M1 EXCEPT !.eventListeners =
                 SelectSeq(@, LAMBDA l : l # does.target)]
    IN IF does.kind = "throws" THEN [M1 EXCEPT !.threw = TRUE]
       ELSE IF does.kind = "unsubscribes"
         THEN forEachListener(M2, ev, IF at >= 1 /\ at <= i THEN i ELSE i + 1)
       ELSE forEachListener(M1, ev, i + 1)

\* emit whose forEach stops after the first listener
emitToFirst(M, ev) ==
  LET M0 == [M EXCEPT !.emitted = Append(@, ev)]
  IN IF M.eventListeners = <<>> THEN M0
     ELSE [M0 EXCEPT !.delivered = Append(@, [listener |-> M.eventListeners[1],
                                              event |-> ev]),
                     !.observed = Append(@, Readable(M))]

\* this.eventListeners.forEach(listener => listener(event))
emit(M, ev) ==
  forEachListener([M EXCEPT !.emitted = Append(@, ev)], ev, 1)

\* def.options?.x for an optional property x of an optional options object
OptionIs(def, name, value) ==
  << name, value >> \in def.options

\* the RegisteredShortcut built from one definition (registeredAt and the
\* id string are not modelled: the reference stands for the object)
NewShortcut(componentId, def) ==
  [ componentId |-> componentId,
    keys |-> IF def.keys.type = "string" THEN parseKeyString(def.keys.text)
             ELSE def.keys.combo,
    callback |-> def.callback,
    enabled |-> ~OptionIs(def, "enabled", FALSE),
    preventDefault |-> ~OptionIs(def, "preventDefault", FALSE),
    stopPropagation |-> OptionIs(def, "stopPropagation", TRUE) ]

\* register that puts the new shortcuts before the component's old ones
registerPrepends(M, componentId, definitions) ==
  LET n == Len(definitions)
      m1 == IF MapHas(M.shortcuts, componentId) THEN M.shortcuts
            ELSE MapSet(M.shortcuts, componentId, <<>>)
      registeredIds == [k \in 1..n |-> M.nextId + k - 1]
      newObjs == [r \in (DOMAIN M.objs) \cup {registeredIds[k] : k \in 1..n} |->
                    IF r \in DOMAIN M.objs THEN M.objs[r]
                    ELSE NewShortcut(componentId, definitions[r - M.nextId + 1])]
      M1 == [M EXCEPT !.shortcuts = MapSet(m1, componentId,
                                           registeredIds \o MapGet(m1, componentId)),
                      !.objs = newObjs,
                      !.nextId = M.nextId + n]
  IN emit(startListening(M1),
          [type |-> "register", componentId |-> componentId, keys |-> registeredIds])

register(M, componentId, definitions) ==
  LET n == Len(definitions)
      m1 == IF MapHas(M.shortcuts, componentId) THEN M.shortcuts
            ELSE MapSet(M.shortcuts, componentId, <<>>)
      registeredIds == [k \in 1..n |-> M.nextId + k - 1]
      newObjs == [r \in (DOMAIN M.objs) \cup {registeredIds[k] : k \in 1..n} |->
                    IF r \in DOMAIN M.objs THEN M.objs[r]
                    ELSE NewShortcut(componentId, definitions[r - M.nextId + 1])]
      M1 == [M EXCEPT !.shortcuts = MapSet(m1, componentId,
                                           MapGet(m1, componentId) \o registeredIds),
                      !.objs = newObjs,
                      !.nextId = M.nextId + n]
  IN emit(startListening(M1),
          [type |-> "register", componentId |-> componentId, keys |-> registeredIds])

\* keyCombinations.some(combo => keyCombinationToString(combo) ===
\*                               keyCombinationToString(shortcut.keys))
SomeComboEquals(keyStrings, shortcut) ==
  \E k \in 1..Len(keyStrings) :
    keyCombinationToString(parseKeyString(keyStrings[k]))
      = keyCombinationToString(shortcut.keys)

\* that test throws: some stops at the first combination that equals, and
\* throws at the first comparison in which keyCombinationToString throws
SomeComboThrows(keyStrings, shortcut) ==
  \E k \in 1..Len(keyStrings) :
    /\ \/ toUpperCaseThrows(shortcut.keys)
       \/ toUpperCaseThrows(parseKeyString(keyStrings[k]))
    /\ \A i \in 1..(k - 1) :
         keyCombinationToString(parseKeyString(keyStrings[i]))
           # keyCombinationToString(shortcut.keys)

\* the index of the first shortcut of the array at which the test throws;
\* Len + 1 when it throws at none
FirstThrow(M, list, keyStrings) ==
  IF /\ \A k \in 1..Len(list) : ~toUpperCaseThrows(M.objs[list[k]].keys)
     /\ \A k \in 1..Len(keyStrings) :
          ~toUpperCaseThrows(parseKeyString(keyStrings[k]))
    THEN Len(list) + 1   \* no combination at hand makes it throw
  ELSE
    LET at == {k \in 1..Len(list) :
                 SomeComboThrows(keyStrings, M.objs[list[k]])}
    IN IF at = {} THEN Len(list) + 1
       ELSE CHOOSE k \in at : \A j \in at : k <= j

\* deregister without the early return: an unknown component id gets its
\* event all the same
deregisterAlwaysEmits(M, componentId, keyStrings) ==
  IF ~MapHas(M.shortcuts, componentId)
    THEN emit(M, [type |-> "deregister", componentId |-> componentId,
                  keys |-> keyStrings])
  ELSE
    LET componentShortcuts == MapGet(M.shortcuts, componentId)
        remaining == SelectSeq(componentShortcuts,
                       LAMBDA r : ~SomeComboEquals(keyStrings, M.objs[r]))
        M1 == Detach(M, componentId)
        M2 == [M1 EXCEPT !.shortcuts =
                 IF Len(remaining) = 0 THEN MapDelete(M.shortcuts, componentId)
                 ELSE MapSet(M.shortcuts, componentId, remaining)]
        M3 == IF Len(M2.shortcuts) = 0 THEN stopListening(M2) ELSE M2
    IN emit(M3, [type |-> "deregister", componentId |-> componentId,
                 keys |-> keyStrings])

\* deregister that keeps the entry of a component it has emptied
deregisterKeepsEmpty(M, componentId, keyStrings) ==
  IF ~MapHas(M.shortcuts, componentId) THEN M
  ELSE
    LET componentShortcuts == MapGet(M.shortcuts, componentId)
        remaining == SelectSeq(componentShortcuts,
                       LAMBDA r : ~SomeComboEquals(keyStrings, M.objs[r]))
        M1 == Detach(M, componentId)
        M2 == [M1 EXCEPT !.shortcuts =
                 MapSet(M.shortcuts, componentId, remaining)]
    IN emit(M2, [type |-> "deregister", componentId |-> componentId,
                 keys |-> keyStrings])

deregister(M, componentId, keyStrings) ==
  IF ~MapHas(M.shortcuts, componentId) THEN M
  ELSE IF FirstThrow(M, MapGet(M.shortcuts, componentId), keyStrings)
            <= Len(MapGet(M.shortcuts, componentId))
    THEN M   \* filter throws: nothing is assigned, nothing emitted
  ELSE
    LET componentShortcuts == MapGet(M.shortcuts, componentId)
        remaining == SelectSeq(componentShortcuts,
                       LAMBDA r : ~SomeComboEquals(keyStrings, M.objs[r]))
        M1 == Detach(M, componentId)
        M2 == [M1 EXCEPT !.shortcuts =
                 IF Len(remaining) = 0 THEN MapDelete(M.shortcuts, componentId)
                 ELSE MapSet(M.shortcuts, componentId, remaining)]
        M3 == IF Len(M2.shortcuts) = 0 THEN stopListening(M2) ELSE M2
    IN emit(M3, [type |-> "deregister", componentId |-> componentId,
                 keys |-> keyStrings])

\* the body shared by enable and disable: shortcut.enabled = value
SetEnabled(M, componentId, keyStrings, value) ==
  LET componentShortcuts == MapGet(M.shortcuts, componentId)
      first == FirstThrow(M, componentShortcuts, keyStrings)
      hit == {componentShortcuts[k] : k \in 1..(first - 1)}
  IN [M EXCEPT !.objs =
        [r \in DOMAIN M.objs |->
           IF r \in hit /\ SomeComboEquals(keyStrings, M.objs[r])
             THEN [M.objs[r] EXCEPT !.enabled = value]
             ELSE M.objs[r]]]

\* enable that sets the flag of the registrations the texts name in every
\* component's array
enableEveryOwner(M, componentId, keyStrings) ==
  IF ~MapHas(M.shortcuts, componentId) THEN M
  ELSE
    LET M1 == [M EXCEPT !.objs =
                 [r \in DOMAIN M.objs |->
                    IF SomeComboEquals(keyStrings, M.objs[r])
                      THEN [M.objs[r] EXCEPT !.enabled = TRUE]
                      ELSE M.objs[r]]]
    IN emit(M1, [type |-> "enable", componentId |-> componentId,
                 keys |-> keyStrings])

enable(M, componentId, keyStrings) ==
  IF ~MapHas(M.shortcuts, componentId) THEN M
  ELSE IF FirstThrow(M, MapGet(M.shortcuts, componentId), keyStrings)
            <= Len(MapGet(M.shortcuts, componentId))
    THEN SetEnabled(M, componentId, keyStrings, TRUE)   \* forEach throws
  ELSE emit(SetEnabled(M, componentId, keyStrings, TRUE),
            [type |-> "enable", componentId |-> componentId, keys |-> keyStrings])

\* disable that clears the flag of every registration of the component
disableAll(M, componentId, keyStrings) ==
  IF ~MapHas(M.shortcuts, componentId) THEN M
  ELSE
    LET componentShortcuts == MapGet(M.shortcuts, componentId)
        hit == {componentShortcuts[k] : k \in 1..Len(componentShortcuts)}
        M1 == [M EXCEPT !.objs =
                 [r \in DOMAIN M.objs |->
                    IF r \in hit THEN [M.objs[r] EXCEPT !.enabled = FALSE]
                    ELSE M.objs[r]]]
    IN emit(M1, [type |-> "disable", componentId |-> componentId,
                 keys |-> keyStrings])

\* disable that flips the flag of the registrations it names
disableToggles(M, componentId, keyStrings) ==
  IF ~MapHas(M.shortcuts, componentId) THEN M
  ELSE
    LET componentShortcuts == MapGet(M.shortcuts, componentId)
        hit == {componentShortcuts[k] : k \in 1..Len(componentShortcuts)}
        M1 == [M EXCEPT !.objs =
                 [r \in DOMAIN M.objs |->
                    IF r \in hit /\ SomeComboEquals(keyStrings, M.objs[r])
                      THEN [M.objs[r] EXCEPT !.enabled = ~@]
                      ELSE M.objs[r]]]
    IN emit(M1, [type |-> "disable", componentId |-> componentId,
                 keys |-> keyStrings])

disable(M, componentId, keyStrings) ==
  IF ~MapHas(M.shortcuts, componentId) THEN M
  ELSE IF FirstThrow(M, MapGet(M.shortcuts, componentId), keyStrings)
            <= Len(MapGet(M.shortcuts, componentId))
    THEN SetEnabled(M, componentId, keyStrings, FALSE)   \* forEach throws
  ELSE emit(SetEnabled(M, componentId, keyStrings, FALSE),
            [type |-> "disable", componentId |-> componentId, keys |-> keyStrings])

\* clearComponent that leaves the entry of a component whose shortcuts are
\* all disabled
clearComponentKeepsDisabled(M, componentId) ==
  LET had == MapHas(M.shortcuts, componentId)
      list == IF had THEN MapGet(M.shortcuts, componentId) ELSE <<>>
      keep == had /\ \A k \in 1..Len(list) : ~M.objs[list[k]].enabled
      M1 == IF had /\ ~keep THEN Detach(M, componentId) ELSE M
      M2 == [M1 EXCEPT !.shortcuts = IF keep THEN M.shortcuts
                                     ELSE MapDelete(M.shortcuts, componentId),
                       !.cleared = @ \cup {list[k] : k \in 1..Len(list)}]
      M3 == IF Len(M2.shortcuts) = 0 THEN stopListening(M2) ELSE M2
  IN emit(M3, [type |-> "clear", componentId |-> componentId])

\* clearComponent that emits its event before it touches the Map
clearComponentEmitsFirst(M, componentId) ==
  LET had == MapHas(M.shortcuts, componentId)
      list == IF had THEN MapGet(M.shortcuts, componentId) ELSE <<>>
      M0 == emit(M, [type |-> "clear", componentId |-> componentId])
      M1 == IF had THEN Detach(M0, componentId) ELSE M0
      M2 == [M1 EXCEPT !.shortcuts = MapDelete(M.shortcuts, componentId),
                       !.cleared = @ \cup {list[k] : k \in 1..Len(list)}]
  IN IF Len(M2.shortcuts) = 0 THEN stopListening(M2) ELSE M2

clearComponent(M, componentId) ==
  LET had == MapHas(M.shortcuts, componentId)
      list == IF had THEN MapGet(M.shortcuts, componentId) ELSE <<>>
      M1 == IF had THEN Detach(M, componentId) ELSE M
      M2 == [M1 EXCEPT !.shortcuts = MapDelete(M.shortcuts, componentId),
                       !.cleared = @ \cup {list[k] : k \in 1..Len(list)}]
      M3 == IF Len(M2.shortcuts) = 0 THEN stopListening(M2) ELSE M2
  IN emit(M3, [type |-> "clear", componentId |-> componentId])

RECURSIVE DetachAll(_, _)
DetachAll(M, ids) ==
  IF ids = <<>> THEN M ELSE DetachAll(Detach(M, Head(ids)), Tail(ids))

getComponentIds(M) ==
  [i \in 1..Len(M.shortcuts) |-> M.shortcuts[i].componentId]

hasComponent(M, componentId) == MapHas(M.shortcuts, componentId)

getComponentKeys(M, componentId) ==
  IF MapHas(M.shortcuts, componentId) THEN MapGet(M.shortcuts, componentId)
  ELSE <<>>

\* destroy without its call of stopListening
destroyKeepsListening(M) ==
  LET M2 == DetachAll(M, getComponentIds(M))
  IN [M2 EXCEPT !.shortcuts = <<>>, !.eventListeners = <<>>]

destroy(M) ==
  LET M1 == stopListening(M)
      M2 == DetachAll(M1, getComponentIds(M1))
  IN [M2 EXCEPT !.shortcuts = <<>>, !.eventListeners = <<>>]

\* subscribe(listener) and the function it returns (Set.add / Set.delete)
subscribe(M, listener) ==
  IF \E i \in 1..Len(M.eventListeners) : M.eventListeners[i] = listener
    THEN M
    ELSE [M EXCEPT !.eventListeners = Append(@, listener)]

unsubscribe(M, listener) ==
  [M EXCEPT !.eventListeners = SelectSeq(@, LAMBDA l : l # listener)]

(***************************************************************************)
(* Inputs: component ids, definitions, key texts, events, callbacks' calls *)
(***************************************************************************)
ComponentIds == {"a", "b"}

Listeners == {"L1"}

TextCtrlS == <<"C","t","r","l","+","S">>
TextCtrlSLower == <<"c","t","r","l","+","s">>
TextS == <<"s">>
TextShiftS == <<"S","h","i","f","t","+","S">>
TextMetaK == <<"M","e","t","a","+","K">>
TextCtrlZ == <<"C","t","r","l","+","Z">>

\* options: the set of << property, value >> pairs the object carries
NoOptions == {}

\* the combination slot of a definition whose keys is a string
NoCombo ==
  [key |-> <<>>, ctrl |-> FALSE, alt |-> FALSE, shift |-> FALSE, meta |-> FALSE]

Def(text, callback, options) ==
  [keys |-> [type |-> "string", text |-> text, combo |-> NoCombo],
   callback |-> callback, options |-> options]

\* a definition whose keys is a KeyCombination object
DefCombo(combo, callback, options) ==
  [keys |-> [type |-> "object", text |-> <<>>, combo |-> combo],
   callback |-> callback, options |-> options]

\* definitions offered to register
Definitions ==
  { Def(TextCtrlS, "f", NoOptions),
    Def(TextS, "g", NoOptions) }

\* sequences of at most n elements of S
SeqsUpTo(S, n) == UNION {[1..k -> S] : k \in 0..n}

DefinitionLists == SeqsUpTo(Definitions, MaxDefs)

\* key texts offered to deregister, enable and disable
KeyStringLists == { <<>>, <<TextCtrlSLower>>, <<TextS>> }

Target(tagName, isContentEditable) ==
  [tagName |-> tagName, isContentEditable |-> isContentEditable]

KeyEvent(key, code, ctrlKey, altKey, shiftKey, metaKey, target) ==
  [key |-> key, code |-> code, ctrlKey |-> ctrlKey, altKey |-> altKey,
   shiftKey |-> shiftKey, metaKey |-> metaKey, target |-> target]

Div == Target("DIV", FALSE)
Input == Target("INPUT", FALSE)
TextArea == Target("TEXTAREA", FALSE)
Editable == Target("DIV", TRUE)

\* key events offered to the handler
Events ==
  { KeyEvent(<<"s">>, "KeyS", TRUE, FALSE, FALSE, FALSE, Div),
    KeyEvent(<<"s">>, "KeyS", TRUE, FALSE, FALSE, FALSE, Input),
    KeyEvent(<<"s">>, "KeyS", FALSE, FALSE, FALSE, FALSE, Div) }

NoEvent == KeyEvent(<<>>, "", FALSE, FALSE, FALSE, FALSE, Target("", FALSE))

\* a manager call: the operation, the component id and the argument
Call(op, componentId, arg) == [op |-> op, componentId |-> componentId, arg |-> arg]

NoCall == Call("none", "", <<>>)

\* the history record of a call: had tells whether the Map held the component
\* id when the call was made
Made(call, m) ==
  [op |-> call.op, componentId |-> call.componentId, arg |-> call.arg,
   had |-> MapHas(m, call.componentId)]

NoneMade == Made(NoCall, <<>>)

RegisterCalls(ids, defLists) ==
  {Call("register", c, d) : c \in ids, d \in defLists}

KeyCalls(op, ids, keyLists) ==
  {Call(op, c, k) : c \in ids, k \in keyLists}

ClearCalls(ids) == {Call("clear", c, <<>>) : c \in ids}

DestroyCalls == {Call("destroy", "", <<>>)}

ListenerCalls(ls) ==
  {Call("subscribe", "", l) : l \in ls} \cup {Call("unsubscribe", "", l) : l \in ls}

\* the calls clients make
ClientCalls ==
  RegisterCalls(ComponentIds, DefinitionLists)
    \cup KeyCalls("deregister", ComponentIds, KeyStringLists)
    \cup KeyCalls("enable", ComponentIds, KeyStringLists)
    \cup KeyCalls("disable", ComponentIds, KeyStringLists)
    \cup ClearCalls(ComponentIds)
    \cup DestroyCalls
    \cup ListenerCalls(Listeners)

\* the manager calls a callback may make while it runs
CallbackCalls ==
  RegisterCalls(ComponentIds, SeqsUpTo(Definitions, 1) \ {<<>>})
    \cup KeyCalls("deregister", ComponentIds, {<<TextCtrlSLower>>})
    \cup KeyCalls("disable", ComponentIds, {<<TextS>>})
    \cup KeyCalls("enable", ComponentIds, {<<TextS>>})
    \cup ClearCalls(ComponentIds)

(***************************************************************************)
(* Inputs of MatchSpec: one registration, drawn from key texts and from    *)
(* KeyCombination objects, against every event of a product of keys,       *)
(* modifier flags and targets.                                             *)
(***************************************************************************)
KeyEscape == <<"E","s","c","a","p","e">>
KeyUnidentified == <<"U","n","i","d","e","n","t","i","f","i","e","d">>
KeyEnter == <<"E","n","t","e","r">>
TextEscape == <<"E","s","c","a","p","e">>
TextEnter == <<"E","n","t","e","r">>
TextCtrlEnter == <<"C","t","r","l","+","E","n","t","e","r">>

MatchTexts ==
  { TextCtrlS, TextS, TextShiftS, TextMetaK, <<"S","p","a","c","e">>, <<"E","s","c">>, <<"C","m","d","+","C","t","r","l","+","K">>,
    TextEscape, TextEnter, TextCtrlEnter }

MatchCombos ==
  [ key : {<<"s">>, <<"S">>, <<" ">>, <<"k">>, KeyEscape},
    ctrl : BOOLEAN, alt : BOOLEAN, shift : BOOLEAN, meta : BOOLEAN ]

\* options given with a definition
MatchOptions ==
  { {<< "preventDefault", FALSE >>},
    {<< "stopPropagation", TRUE >>},
    {<< "preventDefault", FALSE >>, << "stopPropagation", TRUE >>},
    {<< "preventDefault", TRUE >>, << "stopPropagation", FALSE >>} }

MatchDefinitions ==
  {Def(t, "f", NoOptions) : t \in MatchTexts}
    \cup {DefCombo(c, "f", NoOptions) : c \in MatchCombos}
    \cup {Def(TextCtrlS, "f", {<< "enabled", FALSE >>})}
    \cup {Def(TextCtrlS, "f", o) : o \in MatchOptions}

MatchCalls == RegisterCalls({"a"}, {<<d>> : d \in MatchDefinitions})

\* event.key with the event.code it comes with
MatchKeyCodes ==
  { << <<"s">>, "KeyS" >>, << <<"S">>, "KeyS" >>, << <<"k">>, "KeyK" >>,
    << <<" ">>, "Space" >>, << KeyUnidentified, "Space" >>,
    << KeyEscape, "Escape" >>, << KeyEnter, "Enter" >> }

MatchTargets == {Div, Input, TextArea, Editable}

MatchEvents ==
  { KeyEvent(kc[1], kc[2], c, a, sh, m, t) :
      kc \in MatchKeyCodes, c \in BOOLEAN, a \in BOOLEAN, sh \in BOOLEAN,
      m \in BOOLEAN, t \in MatchTargets }

\* callbacks that make no manager call
NoCalls == {}

(***************************************************************************)
(* Actions.                                                                *)
(***************************************************************************)
\* the manager state a call starts from
Cur ==
  [ windowDefined |-> windowDefined, shortcuts |-> shortcuts, objs |-> objs,
    nextId |-> nextId, isListening |-> isListening, attached |-> attached,
    eventListeners |-> eventListeners, snap |-> snap,
    emitted |-> <<>>, delivered |-> <<>>, observed |-> <<>>,
    cleared |-> cleared, threw |-> FALSE ]

\* references held by the Map or by the iteration in progress
Reachable(m, sn) ==
  UNION {{m[i].list[k] : k \in 1..Len(m[i].list)} : i \in 1..Len(m)}
    \cup UNION {{sn[i].list[k] : k \in 1..Len(sn[i].list)} : i \in 1..Len(sn)}

\* the state after a call; objects nothing refers to any more are collected
Install(M) ==
  /\ shortcuts' = M.shortcuts
  /\ objs' = [r \in (DOMAIN M.objs) \cap Reachable(M.shortcuts, M.snap) |-> M.objs[r]]
  /\ nextId' = M.nextId
  /\ isListening' = M.isListening
  /\ attached' = M.attached
  /\ eventListeners' = M.eventListeners
  /\ snap' = M.snap
  /\ emitted' = M.emitted
  /\ delivered' = M.delivered
  /\ observed' = M.observed
  /\ cleared' = M.cleared
  /\ UNCHANGED windowDefined

Apply(M, call) ==
  CASE call.op = "register" -> register(M, call.componentId, call.arg)
    [] call.op = "deregister" -> deregister(M, call.componentId, call.arg)
    [] call.op = "enable" -> enable(M, call.componentId, call.arg)
    [] call.op = "disable" -> disable(M, call.componentId, call.arg)
    [] call.op = "clear" -> clearComponent(M, call.componentId)
    [] call.op = "destroy" -> destroy(M)
    [] OTHER -> M

\* the model creates at most MaxShortcuts objects
Allowed(call) ==
  call.op = "register" => nextId + Len(call.arg) - 1 <= MaxShortcuts

\* a client's call returns or ends with the exception of a listener: the
\* state is the one the operation made
Returned(call, M) ==
  /\ Install(M)
  /\ lastCall' = Made(call, shortcuts)
  /\ pc' = IF M.threw THEN "threw" ELSE "returned"
  /\ UNCHANGED << event, oi, si, trace, nested, startView, startCleared >>
  /\ UNCHANGED parseVars
  /\ UNCHANGED idVars

\* the call of a client that is no hook
Returns(call, M) ==
  /\ Returned(call, M)
  /\ UNCHANGED hookVars

\* control is back in the event loop: the history of the call is dropped
CallReturn ==
  /\ pc \in {"returned", "threw"}
  /\ pc' = "idle"
  /\ emitted' = <<>>
  /\ delivered' = <<>>
  /\ observed' = <<>>
  /\ lastCall' = NoneMade
  /\ UNCHANGED << windowDefined, shortcuts, objs, nextId, isListening, attached,
                  eventListeners, snap, cleared >>
  /\ UNCHANGED << event, oi, si, trace, nested, startView, startCleared >>
  /\ UNCHANGED hookVars
  /\ UNCHANGED parseVars
  /\ UNCHANGED idVars

\* the calls of one operation among calls
Of(op, calls) == {call \in calls : call.op = op}

\* the operations, called by a client while no handler is running
Register(calls) ==
  /\ pc = "idle"
  /\ \E call \in Of("register", calls) :
       /\ Allowed(call)
       /\ Returns(call, register(Cur, call.componentId, call.arg))

Deregister(calls) ==
  /\ pc = "idle"
  /\ \E call \in Of("deregister", calls) :
       Returns(call, deregister(Cur, call.componentId, call.arg))

Enable(calls) ==
  /\ pc = "idle"
  /\ \E call \in Of("enable", calls) :
       Returns(call, enable(Cur, call.componentId, call.arg))

Disable(calls) ==
  /\ pc = "idle"
  /\ \E call \in Of("disable", calls) :
       Returns(call, disable(Cur, call.componentId, call.arg))

ClearComponent(calls) ==
  /\ pc = "idle"
  /\ \E call \in Of("clear", calls) :
       Returns(call, clearComponent(Cur, call.componentId))

Destroy(calls) ==
  /\ pc = "idle"
  /\ \E call \in Of("destroy", calls) : Returns(call, destroy(Cur))

Subscribe(calls) ==
  /\ pc = "idle"
  /\ \E call \in Of("subscribe", calls) : Returns(call, subscribe(Cur, call.arg))

Unsubscribe(calls) ==
  /\ pc = "idle"
  /\ \E call \in Of("unsubscribe", calls) :
       Returns(call, unsubscribe(Cur, call.arg))

\* NextPosition with a break after the shortcut just visited: the rest of
\* the owner's array is skipped
RECURSIVE NextPositionBreaks(_, _, _, _)
NextPositionBreaks(m, sn, i, j) ==
  IF i > Len(sn) THEN <<i, 1>>
  ELSE IF j = 1 /\ 1 <= Len(SnapList(m, sn[i])) THEN <<i, 1>>
  ELSE NextPositionBreaks(m, sn, i + 1, 1)

\* the position of the next shortcut the two for-of loops will visit, from
\* (i, j) on: the array's length is read when the loop asks for the next
\* element; i = Len(sn) + 1 when the loops are over
RECURSIVE NextPosition(_, _, _, _)
NextPosition(m, sn, i, j) ==
  IF i > Len(sn) THEN <<i, 1>>
  ELSE IF j <= Len(SnapList(m, sn[i])) THEN <<i, j>>
  ELSE NextPosition(m, sn, i + 1, 1)

isInputField(target) ==
  \/ target.tagName = "INPUT"
  \/ target.tagName = "TEXTAREA"
  \/ target.isContentEditable

\* the platform delivers a keydown event to the attached handler:
\* handleKeyDown starts and takes Array.from(this.shortcuts)
KeyDown(events) ==
  /\ pc = "idle"
  /\ attached # <<>>
  /\ \E e \in events : event' = e
  /\ pc' = "dispatch"
  /\ snap' = [i \in 1..Len(shortcuts) |->
                [componentId |-> shortcuts[i].componentId, live |-> TRUE,
                 list |-> <<>>]]
  /\ oi' = NextPosition(shortcuts, snap', 1, 1)[1]
  /\ si' = NextPosition(shortcuts, snap', 1, 1)[2]
  /\ trace' = <<>>
  /\ nested' = <<>>
  /\ startView' = View(shortcuts, objs)
  /\ startCleared' = cleared
  /\ emitted' = <<>>
  /\ delivered' = <<>>
  /\ observed' = <<>>
  /\ lastCall' = NoneMade
  /\ UNCHANGED << windowDefined, shortcuts, objs, nextId, isListening, attached,
                  eventListeners, cleared >>
  /\ UNCHANGED hookVars
  /\ UNCHANGED parseVars
  /\ UNCHANGED idVars

\* Outcome with shift counted among the modifiers that lift the suppression
OutcomeShiftLifts(e, shortcut) ==
  IF ~shortcut.enabled THEN "disabled"
  ELSE IF ~matchesKeyCombination(e, shortcut.keys) THEN "nomatch"
  ELSE IF isInputField(e.target) /\ ~shortcut.keys.ctrl /\ ~shortcut.keys.alt
            /\ ~shortcut.keys.shift /\ ~shortcut.keys.meta THEN "suppressed"
  ELSE "fired"

\* Outcome without the test of shortcut.enabled
OutcomeIgnoresEnabled(e, shortcut) ==
  IF ~matchesKeyCombination(e, shortcut.keys) THEN "nomatch"
  ELSE IF isInputField(e.target) /\ ~shortcut.keys.ctrl /\ ~shortcut.keys.alt
            /\ ~shortcut.keys.meta THEN "suppressed"
  ELSE "fired"

\* what the loop body does with one shortcut; "threw": the exception of
\* matchesKeyCombination leaves handleKeyDown
Outcome(e, shortcut) ==
  IF ~shortcut.enabled THEN "disabled"
  ELSE IF matchesThrows(shortcut.keys) THEN "threw"
  ELSE IF ~matchesKeyCombination(e, shortcut.keys) THEN "nomatch"
  ELSE IF isInputField(e.target) /\ ~shortcut.keys.ctrl /\ ~shortcut.keys.alt
            /\ ~shortcut.keys.meta THEN "suppressed"
  ELSE "fired"

\* Effects with preventDefault called whatever the shortcut says
EffectsAlwaysPrevent(shortcut, outcome) ==
  IF outcome # "fired" THEN <<>>
  ELSE << "preventDefault" >>
         \o (IF shortcut.stopPropagation THEN << "stopPropagation" >> ELSE <<>>)
         \o << "callback" >>

\* what the loop body calls for one shortcut, in the order of the calls
Effects(shortcut, outcome) ==
  IF outcome # "fired" THEN <<>>
  ELSE (IF shortcut.preventDefault # FALSE THEN << "preventDefault" >> ELSE <<>>)
         \o (IF shortcut.stopPropagation THEN << "stopPropagation" >> ELSE <<>>)
         \o << "callback" >>

\* what a callback does instead of a manager call: it throws
Throw == Call("throw", "", <<>>)

\* the loop position after the body, had handleKeyDown a try/catch around
\* the callback: the loops go on after a callback that throws
AfterBodyCatches(M, outcome, call, i, j) ==
  IF outcome = "threw" THEN << Len(M.snap) + 1, 1 >>
  ELSE NextPosition(M.shortcuts, M.snap, i, j + 1)

\* the loop position after the body for the shortcut at (i, j): an
\* exception of matchesKeyCombination or of the callback (its own, or that
\* of a listener of the manager call it made) leaves both loops and
\* handleKeyDown
AfterBody(M, outcome, call, i, j) ==
  IF outcome = "threw" \/ call = Throw \/ M.threw
    THEN << Len(M.snap) + 1, 1 >>
  ELSE NextPosition(M.shortcuts, M.snap, i, j + 1)

\* one iteration of the inner loop of handleKeyDown; a fired callback makes
\* at most one manager call (calls) before it returns
DispatchStep(calls) ==
  /\ pc = "dispatch"
  /\ oi <= Len(snap)
  /\ LET r == SnapList(shortcuts, snap[oi])[si]
         shortcut == objs[r]
         outcome == Outcome(event, shortcut)
         fired == outcome = "fired"
         offered == IF fired /\ Len(nested) < MaxNested
                      THEN {NoCall} \cup calls ELSE {NoCall}
     IN \E call \in offered :
          LET M == Apply(Cur, call)
              pos == AfterBody(M, outcome, call, oi, si)
          IN /\ Allowed(call)
             /\ Install(M)
             /\ oi' = pos[1]
             /\ si' = pos[2]
             /\ trace' = Append(trace,
                  [ ref |-> r, shortcut |-> shortcut, outcome |-> outcome,
                    preventDefault |-> fired /\ shortcut.preventDefault,
                    stopPropagation |-> fired /\ shortcut.stopPropagation,
                    effects |-> Effects(shortcut, outcome),
                    call |-> Made(call, shortcuts) ])
             /\ nested' = IF call = NoCall THEN nested
                          ELSE Append(nested, Made(call, shortcuts))
             /\ lastCall' = Made(call, shortcuts)
  /\ UNCHANGED << pc, event, startView, startCleared >>
  /\ UNCHANGED hookVars
  /\ UNCHANGED parseVars
  /\ UNCHANGED idVars

\* both loops are over: handleKeyDown returns
HandlerReturn ==
  /\ pc = "dispatch"
  /\ oi > Len(snap)
  /\ pc' = "idle"
  /\ event' = NoEvent
  /\ snap' = <<>>
  /\ oi' = 1
  /\ si' = 1
  /\ trace' = <<>>
  /\ nested' = <<>>
  /\ startView' = <<>>
  /\ startCleared' = {}
  /\ objs' = [r \in (DOMAIN objs) \cap Reachable(shortcuts, <<>>) |-> objs[r]]
  /\ emitted' = <<>>
  /\ delivered' = <<>>
  /\ observed' = <<>>
  /\ lastCall' = NoneMade
  /\ UNCHANGED << windowDefined, shortcuts, nextId, isListening, attached,
                  eventListeners, cleared >>
  /\ UNCHANGED hookVars
  /\ UNCHANGED parseVars
  /\ UNCHANGED idVars

Hooks == {"h1", "h2"}

Init ==
  /\ windowDefined \in BOOLEAN
  /\ shortcuts = <<>>
  /\ objs = <<>>
  /\ nextId = 1
  /\ isListening = FALSE
  /\ attached = <<>>
  /\ eventListeners = <<>>
  /\ pc = "idle"
  /\ event = NoEvent
  /\ snap = <<>>
  /\ oi = 1
  /\ si = 1
  /\ hooks = [h \in Hooks |-> "unmounted"]
  /\ emitted = <<>>
  /\ delivered = <<>>
  /\ observed = <<>>
  /\ lastCall = NoneMade
  /\ trace = <<>>
  /\ nested = <<>>
  /\ startView = <<>>
  /\ startCleared = {}
  /\ cleared = {}
  /\ keyString = <<>>
  /\ parsed = NoCombo
  /\ formatted = <<>>
  /\ ppc = "none"
  /\ generated = <<>>
  /\ clock = 0

Next ==
  \/ Register(ClientCalls)
  \/ Deregister(ClientCalls)
  \/ Enable(ClientCalls)
  \/ Disable(ClientCalls)
  \/ ClearComponent(ClientCalls)
  \/ Destroy(ClientCalls)
  \/ Subscribe(ClientCalls)
  \/ Unsubscribe(ClientCalls)
  \/ CallReturn
  \/ KeyDown(Events)
  \/ DispatchStep(CallbackCalls)
  \/ HandlerReturn

Spec == Init /\ [][Next]_vars

(***************************************************************************)
(* The manager with callbacks that may throw.                              *)
(***************************************************************************)
ThrowingCalls == CallbackCalls \cup {Throw}

ThrowNext ==
  \/ Register(ClientCalls)
  \/ Deregister(ClientCalls)
  \/ Enable(ClientCalls)
  \/ Disable(ClientCalls)
  \/ ClearComponent(ClientCalls)
  \/ Destroy(ClientCalls)
  \/ Subscribe(ClientCalls)
  \/ Unsubscribe(ClientCalls)
  \/ CallReturn
  \/ KeyDown(Events)
  \/ DispatchStep(ThrowingCalls)
  \/ HandlerReturn

ThrowSpec == Init /\ [][ThrowNext]_vars

(***************************************************************************)
(* useKeyboardShortcuts.  A hook instance is unmounted, mounted, or        *)
(* unmounting: removed by React, its cleanup effect not yet run.  React    *)
(* runs the effects and their cleanups as tasks of their own, so they run  *)
(* while no key handler does.                                              *)
(***************************************************************************)
\* the componentId argument of the hook (actualComponentId)
HookId(h) == IF h = "h1" THEN "a" ELSE "b"

\* the options argument of the hook
HookOptions(h) == IF h = "h1" THEN NoOptions ELSE {<< "stopPropagation", TRUE >>}

\* { ...defaultOptions, ...def.options }
SpreadOptions(defaultOptions, options) ==
  options \cup {p \in defaultOptions : \A q \in options : q[1] # p[1]}

\* the component renders: the hook is called for the first time
Mount(h) ==
  /\ pc = "idle"
  /\ hooks[h] = "unmounted"
  /\ hooks' = [hooks EXCEPT ![h] = "mounted"]
  /\ UNCHANGED << windowDefined, shortcuts, objs, nextId, isListening, attached,
                  eventListeners, pc, event, snap, oi, si, emitted, delivered, observed,
                  lastCall, trace, nested, startView, cleared, startCleared >>
  /\ UNCHANGED parseVars
  /\ UNCHANGED idVars

\* the register function the hook returns
HookRegister(h) ==
  /\ pc = "idle"
  /\ hooks[h] = "mounted"
  /\ \E definitions \in DefinitionLists :
       LET processedDefinitions ==
             [k \in 1..Len(definitions) |->
                [definitions[k] EXCEPT
                   !.options = SpreadOptions(HookOptions(h), @)]]
           call == Call("register", HookId(h), processedDefinitions)
       IN /\ Allowed(call)
          /\ Returned(call, register(Cur, HookId(h), processedDefinitions))
  /\ UNCHANGED hooks

\* React removes the component
Unmount(h) ==
  /\ pc = "idle"
  /\ hooks[h] = "mounted"
  /\ hooks' = [hooks EXCEPT ![h] = "unmounting"]
  /\ UNCHANGED << windowDefined, shortcuts, objs, nextId, isListening, attached,
                  eventListeners, pc, event, snap, oi, si, emitted, delivered, observed,
                  lastCall, trace, nested, startView, cleared, startCleared >>
  /\ UNCHANGED parseVars
  /\ UNCHANGED idVars

\* CleanupEffect that forgets to clear the component
CleanupEffectForgets(h) ==
  /\ pc = "idle"
  /\ hooks[h] = "unmounting"
  /\ Returned(Call("clear", HookId(h), <<>>), Cur)
  /\ hooks' = [hooks EXCEPT ![h] = "unmounted"]

\* the cleanup of the hook's last effect
CleanupEffect(h) ==
  /\ pc = "idle"
  /\ hooks[h] = "unmounting"
  /\ Returned(Call("clear", HookId(h), <<>>), clearComponent(Cur, HookId(h)))
  /\ hooks' = [hooks EXCEPT ![h] = "unmounted"]

HookNext ==
  \/ \E h \in Hooks : Mount(h)
  \/ \E h \in Hooks : HookRegister(h)
  \/ \E h \in Hooks : Unmount(h)
  \/ \E h \in Hooks : CleanupEffect(h)
  \/ CallReturn
  \/ KeyDown(Events)
  \/ DispatchStep(NoCalls)
  \/ HandlerReturn

\* a queued cleanup gets its turn whenever the event loop keeps coming back
\* to it; a handler and a call run to their end
HookFairness ==
  /\ \A h \in Hooks : SF_vars(CleanupEffect(h))
  /\ WF_vars(DispatchStep(NoCalls))
  /\ WF_vars(HandlerReturn)
  /\ WF_vars(CallReturn)

HookSpec == Init /\ [][HookNext]_vars /\ HookFairness

(***************************************************************************)
(* A caller of the parser and the formatter (deregister, enable, disable   *)
(* and the display code call them so): it parses a key text, formats the   *)
(* combination, and may parse the string it got again.                     *)
(***************************************************************************)
\* modifier tokens, in several spellings
ModifierWords ==
  {
    <<"C","t","r","l">>, <<"c","t","r","l">>,
    <<"C","O","N","T","R","O","L">>, <<"A","l","t">>,
    <<"o","p","t","i","o","n">>, <<"S","h","i","f","t">>, <<"c","m","d">>,
    <<"W","i","n","d","o","w","s">> }

\* key tokens
KeyWords ==
  {
    <<"S">>, <<"s">>, <<"E","n","t","e","r">>, <<"r","e","t","u","r","n">>,
    <<"E","s","c">>, <<"S","p","a","c","e">>, <<"u","p">>,
    <<"p","r","i","n","t","s","c","r","e","e","n">>,
    <<"_","_","p","r","o","t","o","_","_">>,
    <<"c","o","n","s","t","r","u","c","t","o","r">> }

\* texts with several modifiers, several keys, blanks, or no key
OtherTexts ==
  {
    <<>>, <<"+">>, <<"C","t","r","l">>, <<"a","+","b">>, <<"b","+","a">>,
    <<" ","c","t","r","l"," ","+"," ","s"," ">>,
    <<"C","t","r","l","+","S","h","i","f","t","+","S">>,
    <<"s","h","i","f","t","+","c","o","n","t","r","o","l","+","s">>,
    <<"S","+","S","h","i","f","t","+","C","t","r","l">>,
    <<"C","m","d","+","C","t","r","l","+","K">>,
    <<"k","+","c","t","r","l","+","w","i","n">> }

ParseTexts ==
  KeyWords
    \cup {join(<< m, k >>) : m \in ModifierWords, k \in KeyWords}
    \cup {join(<< k, m >>) : m \in ModifierWords, k \in KeyWords}
    \cup OtherTexts

ParseInit ==
  /\ windowDefined = TRUE
  /\ shortcuts = <<>>
  /\ objs = <<>>
  /\ nextId = 1
  /\ isListening = FALSE
  /\ attached = <<>>
  /\ eventListeners = <<>>
  /\ pc = "idle"
  /\ event = NoEvent
  /\ snap = <<>>
  /\ oi = 1
  /\ si = 1
  /\ hooks = [h \in Hooks |-> "unmounted"]
  /\ emitted = <<>>
  /\ delivered = <<>>
  /\ observed = <<>>
  /\ lastCall = NoneMade
  /\ trace = <<>>
  /\ nested = <<>>
  /\ startView = <<>>
  /\ startCleared = {}
  /\ cleared = {}
  /\ keyString \in ParseTexts
  /\ parsed = NoCombo
  /\ formatted = <<>>
  /\ ppc = "text"
  /\ generated = <<>>
  /\ clock = 0

\* parseKeyString(keyString)
Parse ==
  /\ ppc = "text"
  /\ parsed' = parseKeyString(keyString)
  /\ ppc' = "parsed"
  /\ UNCHANGED << keyString, formatted >>
  /\ UNCHANGED managerVars
  /\ UNCHANGED hookVars

\* keyCombinationToString(parsed); its TypeError ends the caller
Format ==
  /\ ppc = "parsed"
  /\ IF keyCombinationToString(parsed) = TypeError
       THEN /\ ppc' = "threw"
            /\ UNCHANGED formatted
       ELSE /\ ppc' = "formatted"
            /\ formatted' = Append(formatted, keyCombinationToString(parsed))
  /\ UNCHANGED << keyString, parsed >>
  /\ UNCHANGED managerVars
  /\ UNCHANGED hookVars

\* the caller takes the string it got as its next key text
ParseAgain ==
  /\ ppc = "formatted"
  /\ Len(formatted) < MaxRounds
  /\ keyString' = formatted[Len(formatted)]
  /\ ppc' = "text"
  /\ UNCHANGED << parsed, formatted >>
  /\ UNCHANGED managerVars
  /\ UNCHANGED hookVars

ParseNext == Parse \/ Format \/ ParseAgain

ParseSpec == ParseInit /\ [][ParseNext]_vars

(***************************************************************************)
(* The ids of the registrations.  generateId reads the clock and a random  *)
(* number; the clock stands still for as long as a millisecond lasts, and  *)
(* of the random number's text nine characters are kept.                   *)
(***************************************************************************)
\* texts Math.random().toString(36) returns: for 0, for 0.5, and for two
\* numbers whose texts agree in their first nine fraction digits
RandomTexts ==
  { <<"0">>, <<"0",".","i">>,
    <<"0",".","4","f","z","y","o","8","2","m","v","y","r">>,
    <<"0",".","4","f","z","y","o","8","2","m","v","z","9">> }

IdCalls ==
  RegisterCalls({"a"}, SeqsUpTo({Def(TextCtrlS, "f", NoOptions)}, MaxDefs))
    \cup KeyCalls("deregister", {"a"}, {<< TextCtrlSLower >>})

\* a millisecond passes
Tick ==
  /\ pc = "idle"
  /\ clock < MaxClock
  /\ clock' = clock + 1
  /\ UNCHANGED << windowDefined, shortcuts, objs, nextId, isListening, attached,
                  eventListeners, pc, event, snap, oi, si, emitted, delivered,
                  observed, lastCall, trace, nested, startView, cleared,
                  startCleared, generated >>
  /\ UNCHANGED hookVars
  /\ UNCHANGED parseVars

\* register, with the ids generateId returns for the new objects
RegisterIds ==
  /\ pc = "idle"
  /\ \E call \in Of("register", IdCalls) :
       \E randoms \in [1..Len(call.arg) -> RandomTexts] :
         /\ Allowed(call)
         /\ Install(register(Cur, call.componentId, call.arg))
         /\ lastCall' = Made(call, shortcuts)
         /\ generated' = generated \o [k \in 1..Len(call.arg) |->
                                          generateId(clock, randoms[k])]
  /\ pc' = "returned"
  /\ UNCHANGED << event, oi, si, trace, nested, startView, startCleared, clock >>
  /\ UNCHANGED hookVars
  /\ UNCHANGED parseVars

IdNext ==
  \/ Tick
  \/ RegisterIds
  \/ Deregister(IdCalls)
  \/ CallReturn

IdSpec == Init /\ [][IdNext]_vars

(***************************************************************************)
(* The event bus with listeners of every behaviour: some return, one       *)
(* throws, one unsubscribes itself when it is invoked, and one             *)
(* unsubscribes another listener.                                          *)
(***************************************************************************)
BusListeners == {"L1", "L2", "LThrows", "LOnce", "LDropsL2"}

BusCalls ==
  RegisterCalls({"a"}, {<< Def(TextCtrlS, "f", NoOptions) >>})
    \cup KeyCalls("deregister", {"a"}, {<< TextCtrlSLower >>})
    \cup KeyCalls("enable", {"a"}, {<< TextCtrlSLower >>})
    \cup KeyCalls("disable", {"a"}, {<< TextCtrlSLower >>})
    \cup ClearCalls({"a"})
    \cup ListenerCalls(BusListeners)

BusSubscribe ==
  /\ Len(eventListeners) < MaxListeners
  /\ Subscribe(BusCalls)

BusNext ==
  \/ Register(BusCalls)
  \/ Deregister(BusCalls)
  \/ Enable(BusCalls)
  \/ Disable(BusCalls)
  \/ ClearComponent(BusCalls)
  \/ BusSubscribe
  \/ Unsubscribe(BusCalls)
  \/ CallReturn

BusSpec == Init /\ [][BusNext]_vars

(***************************************************************************)
(* getAllShortcuts returns new Map(this.shortcuts): a Map of its own whose *)
(* values are the manager's arrays and whose arrays hold the manager's     *)
(* objects.  A caller that changes what it got changes the copy (the Map), *)
(* or the manager's array, or the manager's object.                        *)
(***************************************************************************)
\* the entries of the returned Map
getAllShortcuts(M) == M.shortcuts

\* returned.get(componentId).pop(): the array is the manager's
callerPops(M, componentId) ==
  LET list == MapGet(M.shortcuts, componentId)
  IN [M EXCEPT !.shortcuts = MapSet(@, componentId, SubSeq(list, 1, Len(list) - 1))]

\* returned.get(componentId)[k].enabled = false: the object is the manager's
callerDisables(M, componentId, k) ==
  LET r == MapGet(M.shortcuts, componentId)[k]
  IN [M EXCEPT !.objs = [@ EXCEPT ![r] = [@ EXCEPT !.enabled = FALSE]]]

\* a client takes the Map and deletes an entry of it
GetAllShortcutsThenDelete ==
  /\ pc = "idle"
  /\ \E i \in 1..Len(getAllShortcuts(Cur)) :
       Returns(Call("getAllShortcuts", getAllShortcuts(Cur)[i].componentId, <<>>),
               Cur)

\* a client takes the Map and pops the last element of one of its arrays
GetAllShortcutsThenPop ==
  /\ pc = "idle"
  /\ \E i \in 1..Len(getAllShortcuts(Cur)) :
       /\ Len(getAllShortcuts(Cur)[i].list) > 0
       /\ Returns(Call("getAllShortcuts", getAllShortcuts(Cur)[i].componentId, <<>>),
                  callerPops(Cur, getAllShortcuts(Cur)[i].componentId))

\* a client takes the Map and disables a registration it finds in it
GetAllShortcutsThenDisable ==
  /\ pc = "idle"
  /\ \E i \in 1..Len(getAllShortcuts(Cur)) :
       \E k \in 1..Len(getAllShortcuts(Cur)[i].list) :
         Returns(Call("getAllShortcuts", getAllShortcuts(Cur)[i].componentId, <<>>),
                 callerDisables(Cur, getAllShortcuts(Cur)[i].componentId, k))

CopyNext ==
  \/ Register(ClientCalls)
  \/ GetAllShortcutsThenDelete
  \/ GetAllShortcutsThenPop
  \/ GetAllShortcutsThenDisable
  \/ CallReturn
  \/ KeyDown(Events)
  \/ DispatchStep(NoCalls)
  \/ HandlerReturn

CopySpec == Init /\ [][CopyNext]_vars

\* a client registers one shortcut on the empty manager
RegisterFirst(calls) ==
  /\ shortcuts = <<>>
  /\ Register(calls)

MatchNext ==
  \/ RegisterFirst(MatchCalls)
  \/ CallReturn
  \/ KeyDown(MatchEvents)
  \/ DispatchStep(NoCalls)
  \/ HandlerReturn

MatchSpec == Init /\ [][MatchNext]_vars

(***************************************************************************)
(* Definitions shared by the properties.                                   *)
(***************************************************************************)
\* the registrations of a view, owner after owner
RECURSIVE Flatten(_)
Flatten(view) ==
  IF view = <<>> THEN <<>> ELSE Head(view).list \o Flatten(Tail(view))

Refs(list) == {list[k].ref : k \in 1..Len(list)}

\* handleKeyDown has finished both loops and is about to return
PassOver == pc = "dispatch" /\ oi > Len(snap)

FiredEntries == SelectSeq(trace, LAMBDA t : t.outcome = "fired")

FiredRefs == [k \in 1..Len(FiredEntries) |-> FiredEntries[k].ref]

NestedOps == {nested[k].op : k \in 1..Len(nested)}

\* a registration that the event should fire: enabled, matching, and not
\* withheld because the target is editable and the combination bare
ShouldFire(e, shortcut) ==
  /\ shortcut.enabled
  /\ matchesKeyCombination(e, shortcut.keys)
  /\ ~(isInputField(e.target) /\ ~shortcut.keys.ctrl /\ ~shortcut.keys.alt
         /\ ~shortcut.keys.meta)

\* the registrations present when the pass started that the event should fire
ExpectedAtStart ==
  LET all == Flatten(startView)
      hit == SelectSeq(all, LAMBDA x : ShouldFire(event, x.shortcut))
  IN [k \in 1..Len(hit) |-> hit[k].ref]

(***************************************************************************)
(* C1: in every reachable state (a window being there) the listening flag  *)
(* is true if and only if some owner has at least one registration.        *)
(* Refuted: register(componentId, []) creates an entry with an empty array *)
(* and starts listening.                                                   *)
(***************************************************************************)
C1_ListeningIffRegistered ==
  windowDefined =>
    (isListening <=> \E i \in 1..Len(shortcuts) : Len(shortcuts[i].list) > 0)

(***************************************************************************)
(* C3: when a pass is over, the registrations that were present at its     *)
(* start and that the event should fire have each been invoked exactly     *)
(* once, in the order of the owners' entries and, within an owner, of its  *)
(* array; no match ends the pass early.  Stated for the passes in which no *)
(* callback called enable or disable, which change what should fire.       *)
(***************************************************************************)
C3_AllMatchesFireInOrder ==
  (PassOver /\ NestedOps \cap {"enable", "disable"} = {}) =>
    SelectSeq(FiredRefs, LAMBDA r : r \in Refs(Flatten(startView)))
      = ExpectedAtStart

\* a pass over two owners in which both registrations were invoked
C3_Witness ==
  /\ PassOver
  /\ Len(startView) = 2
  /\ Len(ExpectedAtStart) = 2
  /\ FiredRefs = ExpectedAtStart

(***************************************************************************)
(* C4: a registration whose enabled flag is false is never invoked: every  *)
(* invoked registration was enabled when the loop reached it; when disable *)
(* returns, the owner's registrations whose canonical form equals one of   *)
(* the texts are disabled; and a disabled registration becomes enabled     *)
(* again only by an enable call for its owner and its combination.         *)
(***************************************************************************)
C4_FiredWereEnabled ==
  \A k \in 1..Len(trace) : trace[k].outcome = "fired" => trace[k].shortcut.enabled

C4_DisableDisables ==
  (lastCall.op = "disable" /\ MapHas(shortcuts, lastCall.componentId)) =>
    LET list == MapGet(shortcuts, lastCall.componentId)
    IN \A k \in 1..Len(list) :
         SomeComboEquals(lastCall.arg, objs[list[k]]) => ~objs[list[k]].enabled

C4_OnlyEnableEnables ==
  \A r \in (DOMAIN objs) \cap (DOMAIN objs') :
    (~objs[r].enabled /\ objs'[r].enabled) =>
      /\ lastCall'.op = "enable"
      /\ lastCall'.componentId = objs[r].componentId
      /\ SomeComboEquals(lastCall'.arg, objs[r])

C4_DisabledNeverInvoked ==
  /\ [](C4_FiredWereEnabled /\ C4_DisableDisables)
  /\ [][C4_OnlyEnableEnables]_vars

\* the replay: the loop reaches a registration that the event would fire,
\* were it not disabled, and skips it
C4_Witness ==
  \E k \in 1..Len(trace) :
    /\ trace[k].outcome = "disabled"
    /\ ~isInputField(event.target)
    /\ ShouldFire(event, [trace[k].shortcut EXCEPT !.enabled = TRUE])

(***************************************************************************)
(* C5: when clearComponent has returned the Map has no entry for the       *)
(* component id, whatever the entry held; a registration removed by        *)
(* clearComponent is never in the Map again, and no pass that starts after *)
(* the call invokes it.                                                    *)
(***************************************************************************)
C5_ClearedNeverInvokedLater ==
  /\ lastCall.op = "clear" => ~MapHas(shortcuts, lastCall.componentId)
  /\ \A i \in 1..Len(shortcuts) : \A k \in 1..Len(shortcuts[i].list) :
       shortcuts[i].list[k] \notin cleared
  /\ \A k \in 1..Len(trace) :
       trace[k].outcome = "fired" => trace[k].ref \notin startCleared

\* a pass that started after a clearComponent removed registrations, and in
\* which a registration made since was invoked
C5_Witness ==
  /\ PassOver
  /\ startCleared # {}
  /\ FiredEntries # <<>>

(***************************************************************************)
(* C7 as claimed: deregister, enable, disable and clear called with a      *)
(* component id the Map does not hold leave the Map and the listening flag *)
(* unchanged and emit exactly one event of their type.                     *)
(* Refuted: deregister, enable and disable return before they emit.        *)
(***************************************************************************)
UnknownOwnerCall(ops) == lastCall'.op \in ops /\ ~lastCall'.had

OneEventToEach(type) ==
  /\ Len(emitted') = 1
  /\ emitted'[1].type = type
  /\ emitted'[1].componentId = lastCall'.componentId
  /\ delivered' = [i \in 1..Len(eventListeners) |->
                     [listener |-> eventListeners[i], event |-> emitted'[1]]]

C8_PassUsesSnapshot ==
  (PassOver /\ NestedOps \subseteq {"register", "deregister", "clear"}) =>
    FiredRefs = ExpectedAtStart

(***************************************************************************)
(* C2: when the target of the key event is a text input, a text area or a  *)
(* contenteditable element, no registration whose combination has ctrl,    *)
(* alt and meta all false is fired, whatever its shift; and an enabled     *)
(* registration whose combination has ctrl, alt or meta set and matches    *)
(* the event is fired under that target.                                   *)
(***************************************************************************)
C2_TextTargets == {Input, TextArea, Editable}

C2_Bare(combo) == ~combo.ctrl /\ ~combo.alt /\ ~combo.meta

C9_Fold(key) == IF Len(key) = 1 THEN <<LowerChar(key[1])>> ELSE key

C9_Stated(e, combo) ==
  /\ \/ C9_Fold(e.key) = C9_Fold(combo.key)
     \/ (combo.key = <<" ">> /\ e.code = "Space")
  /\ combo.ctrl = (e.ctrlKey \/ e.metaKey)
  /\ combo.alt = e.altKey
  /\ combo.shift = e.shiftKey
  /\ combo.meta => e.metaKey

C10_MetaKFires ==
  \A k \in 1..Len(trace) :
    ( /\ trace[k].shortcut.keys = parseKeyString(TextMetaK)
      /\ trace[k].shortcut.enabled
      /\ event.key = <<"k">>
      /\ event.metaKey /\ ~event.ctrlKey /\ ~event.altKey /\ ~event.shiftKey
      /\ event.target = Div )
    => trace[k].outcome = "fired"

(***************************************************************************)
(* C6: when a component using useKeyboardShortcuts unmounts, the cleanup   *)
(* calls clearComponent for the hook's component id: from the unmount on,  *)
(* a state comes where the Map holds no entry for that id; the cleanup     *)
(* step is a clearComponent call for that id which leaves no entry; and no *)
(* pass that starts after it invokes a registration it removed.            *)
(***************************************************************************)
C6_CleanupStep(h) ==
  (hooks[h] = "unmounting" /\ hooks'[h] = "unmounted") =>
     /\ lastCall'.op = "clear"
     /\ lastCall'.componentId = HookId(h)
     /\ ~MapHas(shortcuts', HookId(h))

C6_UnmountClears ==
  /\ \A h \in Hooks :
       (hooks[h] = "unmounting") ~>
          (hooks[h] = "unmounted" /\ ~MapHas(shortcuts, HookId(h)))
  /\ [][\A h \in Hooks : C6_CleanupStep(h)]_vars
  /\ [](\A k \in 1..Len(trace) :
          trace[k].outcome = "fired" => trace[k].ref \notin startCleared)

\* a key event after the cleanup of a hook that had registrations: the pass
\* is over and has invoked what the other hook registered
C6_Witness ==
  /\ PassOver
  /\ \E h \in Hooks : hooks[h] = "unmounted" /\ ~MapHas(shortcuts, HookId(h))
  /\ startCleared # {}
  /\ \E k \in 1..Len(trace) : trace[k].outcome = "fired"

(***************************************************************************)
(* C11: for a combination with meta false the meta flag of the event is    *)
(* not checked: an event and the event that differs from it in the meta    *)
(* flag alone give the same match result.                                  *)
(* Refuted as stated: the meta flag is read in the comparison of ctrl      *)
(* (ctrlKey || metaKey), so with ctrlKey unset the two events make that    *)
(* comparison come out differently.                                        *)
(***************************************************************************)
\* the event that differs from e in its meta flag alone
C11_MetaFlipped(e) == [e EXCEPT !.metaKey = ~@]

\* key, alt and shift of the combination agree with the event
C11_RestMatches(e, combo) ==
  /\ \/ C9_Fold(e.key) = C9_Fold(combo.key)
     \/ (combo.key = <<" ">> /\ e.code = "Space")
  /\ combo.alt = e.altKey
  /\ combo.shift = e.shiftKey

C11_MetaNotChecked ==
  \A k \in 1..Len(trace) :
    (trace[k].shortcut.enabled /\ ~trace[k].shortcut.keys.meta) =>
      (trace[k].outcome # "nomatch")
        = matchesKeyCombination(C11_MetaFlipped(event), trace[k].shortcut.keys)

(* Amended: for a combination with meta false, the two events give the     *)
(* same match result exactly when ctrlKey is set on them or the key, alt   *)
(* or shift of the combination disagrees with them; otherwise the one with *)
(* the meta flag matches when combo.ctrl is true and the one without it    *)
(* when combo.ctrl is false.                                               *)
C11_MetaCountsAsCtrl ==
  \A k \in 1..Len(trace) :
    (trace[k].shortcut.enabled /\ ~trace[k].shortcut.keys.meta) =>
      LET keys == trace[k].shortcut.keys
          matched == trace[k].outcome # "nomatch"
          flipped == matchesKeyCombination(C11_MetaFlipped(event), keys)
      IN /\ (matched = flipped)
              = (event.ctrlKey \/ ~C11_RestMatches(event, keys))
         /\ (~event.ctrlKey /\ C11_RestMatches(event, keys)) =>
              matched = (keys.ctrl = event.metaKey)

\* a bare combination that the event with the meta flag does not match and
\* the same event without the flag would
C11_Witness ==
  \E k \in 1..Len(trace) :
    /\ trace[k].shortcut.enabled
    /\ ~trace[k].shortcut.keys.meta /\ ~trace[k].shortcut.keys.ctrl
    /\ event.metaKey /\ ~event.ctrlKey
    /\ trace[k].outcome = "nomatch"
    /\ matchesKeyCombination(C11_MetaFlipped(event), trace[k].shortcut.keys)

(***************************************************************************)
(* C12: with the key event's target an input field, an enabled             *)
(* registration for "Escape" is invoked by the Escape key, registrations   *)
(* for "S" and "Enter" are not invoked, and registrations for "Ctrl+S" and *)
(* "Ctrl+Enter" are invoked by their keys.                                 *)
(* Refuted: "Escape" has neither ctrl, alt nor meta, so handleKeyDown      *)
(* skips it in an input field like every other bare combination.           *)
(***************************************************************************)
\* the event is the key with the ctrl flag as given and no other modifier
C12_Pressed(key, ctrl) ==
  /\ event.key = key
  /\ event.ctrlKey = ctrl
  /\ ~event.altKey /\ ~event.shiftKey /\ ~event.metaKey

C12_InputFieldTable ==
  \A k \in 1..Len(trace) :
    (trace[k].shortcut.enabled /\ event.target = Input) =>
      LET keys == trace[k].shortcut.keys
          fired == trace[k].outcome = "fired"
      IN /\ (keys = parseKeyString(TextEscape) /\ C12_Pressed(KeyEscape, FALSE))
              => fired
         /\ keys \in {parseKeyString(TextS), parseKeyString(TextEnter)}
              => ~fired
         /\ (keys = parseKeyString(TextCtrlS) /\ C12_Pressed(<<"s">>, TRUE))
              => fired
         /\ (keys = parseKeyString(TextCtrlEnter) /\ C12_Pressed(KeyEnter, TRUE))
              => fired

(***************************************************************************)
(* C14: formatting after parsing is idempotent: for every key text s,      *)
(* format(parse(format(parse(s)))) = format(parse(s)); every string the    *)
(* caller gets by parsing and formatting again equals the one before.      *)
(* Refuted: for the text "__proto__" the lookup keyMap[lowerKey] finds the *)
(* inherited prototype object, which formats as "[object Object]"; that    *)
(* text parses to the key "[object object]", which formats as itself.      *)
(***************************************************************************)
C14_FormatParseIdempotent ==
  \A i \in 2..Len(formatted) : formatted[i] = formatted[i - 1]

(***************************************************************************)
(* C13: two key texts that differ only in letter case, in the alias used   *)
(* for a modifier (ctrl/control, alt/option, meta/cmd/command/win/windows) *)
(* or in the order of their tokens have the same canonical form            *)
(* format(parse(.)), and deregister, enable and disable called with either *)
(* act on the same registrations of the owner.                             *)
(* Refuted as stated: of several tokens that are no modifiers the last one *)
(* becomes the key, so "a+b" and "b+a" have different canonical forms.     *)
(***************************************************************************)
C13_Aliases ==
  { << <<"c","o","n","t","r","o","l">>, <<"c","t","r","l">> >>, << <<"o","p","t","i","o","n">>, <<"a","l","t">> >>, << <<"c","m","d">>, <<"m","e","t","a">> >>,
    << <<"c","o","m","m","a","n","d">>, <<"m","e","t","a">> >>, << <<"w","i","n">>, <<"m","e","t","a">> >>, << <<"w","i","n","d","o","w","s">>, <<"m","e","t","a">> >> }

C13_Modifiers == { <<"c","t","r","l">>, <<"a","l","t">>, <<"s","h","i","f","t">>, <<"m","e","t","a">> }

\* a token without its letter case and its choice of alias
C13_Token(tok) ==
  LET low == [i \in 1..Len(tok) |-> LowerChar(tok[i])]
  IN IF \E p \in C13_Aliases : p[1] = low
       THEN (CHOOSE p \in C13_Aliases : p[1] = low)[2]
       ELSE low

C13_Tokens(text) ==
  LET parts == split(text) IN [i \in 1..Len(parts) |-> C13_Token(parts[i])]

C13_Count(x, toks) == Cardinality({i \in 1..Len(toks) : toks[i] = x})

\* the two texts have the same tokens, in some order
C13_SameTokens(a, b) ==
  LET ta == C13_Tokens(a)
      tb == C13_Tokens(b)
  IN /\ Len(ta) = Len(tb)
     /\ \A i \in 1..Len(ta) : C13_Count(ta[i], ta) = C13_Count(ta[i], tb)

\* exactly one token of the text is no modifier
C13_OneKey(text) ==
  LET toks == C13_Tokens(text)
  IN Cardinality({i \in 1..Len(toks) : toks[i] \notin C13_Modifiers}) = 1

\* a registry whose owner "a" holds the combination twice, once disabled,
\* among other registrations
C13_Registry(combo) ==
  register(Cur, "a",
    << DefCombo(combo, "f", NoOptions),
       Def(TextS, "g", NoOptions),
       DefCombo(combo, "h", {<< "enabled", FALSE >>}),
       Def(TextCtrlS, "g", {<< "enabled", FALSE >>}),
       Def(TextMetaK, "g", NoOptions) >>)

\* the two texts have one canonical form, and each operation leaves the
\* same registry whichever of them it is given
C13_Agree(a, b, combo) ==
  LET M == C13_Registry(combo)
      da == deregister(M, "a", << a >>)
      db == deregister(M, "a", << b >>)
      ea == enable(M, "a", << a >>)
      eb == enable(M, "a", << b >>)
      xa == disable(M, "a", << a >>)
      xb == disable(M, "a", << b >>)
  IN /\ keyCombinationToString(parseKeyString(b))
          = keyCombinationToString(parseKeyString(a))
     /\ da.shortcuts = db.shortcuts /\ da.objs = db.objs
     /\ ea.shortcuts = eb.shortcuts /\ ea.objs = eb.objs
     /\ xa.shortcuts = xb.shortcuts /\ xa.objs = xb.objs

\* the caller has parsed and formatted the text it started with
C13_Formatted == ppc = "formatted" /\ Len(formatted) = 1

C13_VariantsAgree ==
  C13_Formatted =>
    \A b \in ParseTexts :
      C13_SameTokens(keyString, b) => C13_Agree(keyString, b, parsed)

(* Amended: the same, for key texts with exactly one token that is no      *)
(* modifier.                                                               *)
C13_OneKeyVariantsAgree ==
  (C13_Formatted /\ C13_OneKey(keyString)) =>
    /\ formatted[1] = keyCombinationToString(parseKeyString(keyString))
    /\ \A b \in ParseTexts :
         C13_SameTokens(keyString, b) => C13_Agree(keyString, b, parsed)

\* a text with a variant that has its tokens in another order, and whose
\* combination the operations find in the registry
C13_Witness ==
  /\ C13_Formatted
  /\ C13_OneKey(keyString)
  /\ \E b \in ParseTexts :
       /\ C13_SameTokens(keyString, b)
       /\ C13_Tokens(b) # C13_Tokens(keyString)
       /\ deregister(C13_Registry(parsed), "a", << b >>).shortcuts
            # C13_Registry(parsed).shortcuts

(***************************************************************************)
(* C15: disable is idempotent and enable undoes it: when disable(owner,    *)
(* keys) has returned, every registration of the owner whose canonical     *)
(* form is that of one of the keys has enabled = false; a second disable   *)
(* with the same arguments leaves the Map, the registrations and the       *)
(* listening flag as the first did; and an enable with the same arguments  *)
(* after it sets enabled = true on those registrations and changes no      *)
(* other.                                                                  *)
(***************************************************************************)
\* the registrations of componentId that keyStrings name
NamedBy(m, o, componentId, keyStrings) ==
  LET list == IF MapHas(m, componentId) THEN MapGet(m, componentId) ELSE <<>>
  IN {r \in {list[i] : i \in 1..Len(list)} :
        \E k \in 1..Len(keyStrings) :
          keyCombinationToString(parseKeyString(keyStrings[k]))
            = keyCombinationToString(o[r].keys)}

C15_DisableTwiceThenEnable ==
  (pc = "returned" /\ lastCall.op = "disable") =>
    LET id == lastCall.componentId
        keys == lastCall.arg
        named == NamedBy(shortcuts, objs, id, keys)
        again == disable(Cur, id, keys)
        back == enable(again, id, keys)
    IN /\ \A r \in named : ~objs[r].enabled
       /\ again.shortcuts = shortcuts
       /\ again.objs = objs
       /\ again.isListening = isListening
       /\ back.shortcuts = shortcuts
       /\ \A r \in DOMAIN objs :
            back.objs[r] = IF r \in named THEN [objs[r] EXCEPT !.enabled = TRUE]
                           ELSE objs[r]

\* a disable that named one of two registrations of the owner
C15_Witness ==
  /\ pc = "returned"
  /\ lastCall.op = "disable"
  /\ NamedBy(shortcuts, objs, lastCall.componentId, lastCall.arg) # {}
  /\ Len(MapGet(shortcuts, lastCall.componentId)) = 2
  /\ Cardinality(NamedBy(shortcuts, objs, lastCall.componentId,
                           lastCall.arg)) = 1

(***************************************************************************)
(* C16: deregister(componentId, keyStrings), called by a client or by a    *)
(* callback, on a component the Map holds: the component's array becomes   *)
(* the old one without the registrations whose canonical form is that of   *)
(* one of the key strings, the others in their old order and unchanged;    *)
(* when none is left the Map has no entry for the component.               *)
(***************************************************************************)
C16_DeregisterStep ==
  (pc # "returned" /\ lastCall'.op = "deregister"
     /\ MapHas(shortcuts, lastCall'.componentId)) =>
    LET id == lastCall'.componentId
        old == MapGet(shortcuts, id)
        named == NamedBy(shortcuts, objs, id, lastCall'.arg)
        kept == SelectSeq(old, LAMBDA r : r \notin named)
    IN /\ MapHas(shortcuts', id) = (kept # <<>>)
       /\ kept # <<>> => MapGet(shortcuts', id) = kept
       /\ \A k \in 1..Len(kept) : objs'[kept[k]] = objs[kept[k]]

C17_OwnersHaveRegistrations ==
  /\ \A i \in 1..Len(getComponentIds(Cur)) :
       Len(getComponentKeys(Cur, getComponentIds(Cur)[i])) > 0
  /\ \A id \in ComponentIds :
       hasComponent(Cur, id) => Len(getComponentKeys(Cur, id)) > 0

(***************************************************************************)
(* C18: register(componentId, definitions), called by a client or by a     *)
(* callback: the component's array becomes the old one, its registrations  *)
(* unchanged, followed by one new registration for each definition in the  *)
(* order of the definitions; the ids returned (the array also given to     *)
(* emit) are those of the new registrations in that order, as many as      *)
(* there are definitions; each new registration has the definition's       *)
(* callback and combination, and for an option the definition omits        *)
(* enabled = true, preventDefault = true, stopPropagation = false.         *)
(***************************************************************************)
\* the definition gives no value for the option
C18_Omits(def, name) == \A p \in def.options : p[1] # name

C18_AsDefined(shortcut, componentId, def) ==
  /\ shortcut.componentId = componentId
  /\ shortcut.callback = def.callback
  /\ shortcut.keys = IF def.keys.type = "string"
                       THEN parseKeyString(def.keys.text) ELSE def.keys.combo
  /\ C18_Omits(def, "enabled") => shortcut.enabled
  /\ C18_Omits(def, "preventDefault") => shortcut.preventDefault
  /\ C18_Omits(def, "stopPropagation") => ~shortcut.stopPropagation

C18_RegisterStep ==
  (pc # "returned" /\ lastCall'.op = "register") =>
    LET id == lastCall'.componentId
        defs == lastCall'.arg
        old == IF MapHas(shortcuts, id) THEN MapGet(shortcuts, id) ELSE <<>>
        ids == emitted'[Len(emitted')].keys
    IN /\ MapHas(shortcuts', id)
       /\ MapGet(shortcuts', id) = old \o ids
       /\ Len(ids) = Len(defs)
       /\ \A k \in 1..Len(old) : objs'[old[k]] = objs[old[k]]
       /\ \A k \in 1..Len(ids) :
            /\ ids[k] \notin DOMAIN objs
            /\ C18_AsDefined(objs'[ids[k]], id, defs[k])

C18_RegisterAppends == [][C18_RegisterStep]_vars

\* a register for a component that had a registration: the new one is the
\* second of its array
C18_Witness ==
  /\ pc = "returned"
  /\ lastCall.op = "register"
  /\ lastCall.had
  /\ Len(lastCall.arg) = 1
  /\ Len(MapGet(shortcuts, lastCall.componentId)) = 2
  /\ emitted[1].keys = << MapGet(shortcuts, lastCall.componentId)[2] >>

(***************************************************************************)
(* C19: what getAllShortcuts returns is a defensive copy: whatever a       *)
(* caller does to the returned Map, to the arrays in it or to the          *)
(* registrations in them, the manager's Map and registrations, which are   *)
(* what it dispatches and returns afterwards, stay as they were.           *)
(* Refuted: only the Map is copied; its arrays and their objects are the   *)
(* manager's own.                                                          *)
(***************************************************************************)
C19_CallerStep ==
  lastCall'.op = "getAllShortcuts" =>
    /\ shortcuts' = shortcuts
    /\ \A r \in DOMAIN objs : r \in DOMAIN objs' /\ objs'[r] = objs[r]

C19_SnapshotIsDefensiveCopy == [][C19_CallerStep]_vars

(***************************************************************************)
(* C20: for every registration a pass invokes, event.preventDefault is     *)
(* called if and only if the registration's preventDefault is true and     *)
(* event.stopPropagation if and only if its stopPropagation is true, each  *)
(* once and before the callback, which is the last call made for the       *)
(* registration; for a registration that is disabled, does not match or is *)
(* withheld in an input field, nothing is called.                          *)
(***************************************************************************)
C20_Count(x, seq) == Cardinality({i \in 1..Len(seq) : seq[i] = x})

C20_CapabilitiesBeforeCallback ==
  \A k \in 1..Len(trace) :
    LET did == trace[k].effects
        shortcut == trace[k].shortcut
    IN IF trace[k].outcome = "fired"
         THEN /\ Len(did) > 0
              /\ did[Len(did)] = "callback"
              /\ C20_Count("callback", did) = 1
              /\ C20_Count("preventDefault", did)
                   = IF shortcut.preventDefault THEN 1 ELSE 0
              /\ C20_Count("stopPropagation", did)
                   = IF shortcut.stopPropagation THEN 1 ELSE 0
         ELSE did = <<>>

\* a registration with preventDefault false and stopPropagation true was
\* invoked
C20_Witness ==
  \E k \in 1..Len(trace) :
    /\ trace[k].outcome = "fired"
    /\ ~trace[k].shortcut.preventDefault
    /\ trace[k].shortcut.stopPropagation
    /\ trace[k].effects = << "stopPropagation", "callback" >>

(***************************************************************************)
(* C24: for every key text, the combination parseKeyString returns has a   *)
(* key that is not the empty string.                                       *)
(* Refuted: the result starts as { key: '' } and only a token that is no   *)
(* modifier assigns the key; a text of modifiers alone keeps '', and an    *)
(* empty token is assigned as it is (keyMap[''] || '').                    *)
(***************************************************************************)
C24_ParsedKeyNonEmpty ==
  ppc \in {"parsed", "formatted", "threw"} => parsed.key # <<>>

(***************************************************************************)
(* C21: in every reachable state the window has at most one keydown        *)
(* handler of the manager, and it has one exactly when isListening is      *)
(* true; a register call made while the manager listens adds no second     *)
(* handler.                                                                *)
(***************************************************************************)
C21_OneHandlerIffListening ==
  /\ Len(attached) <= 1
  /\ isListening <=> attached = << handleKeyDown >>

\* a register call for an owner the Map already held has returned, and the
\* window has the one handler
C21_Witness ==
  /\ pc = "returned"
  /\ lastCall.op = "register"
  /\ lastCall.had
  /\ isListening
  /\ attached = << handleKeyDown >>

(***************************************************************************)
(* C22: every call of register, deregister, enable, disable,               *)
(* clearComponent or destroy that changes the Map's contents delivers at   *)
(* least one event to every listener that was subscribed when the call was *)
(* made.                                                                   *)
(* Refuted: destroy stops listening, clears the Map and clears the set of  *)
(* listeners without a call of emit.                                       *)
(***************************************************************************)
C22_ChangingCallStep ==
  (/\ lastCall'.op \in {"register", "deregister", "enable", "disable",
                        "clear", "destroy"}
   /\ View(shortcuts', objs') # View(shortcuts, objs)) =>
    \A i \in 1..Len(eventListeners) :
      \E k \in 1..Len(delivered') :
        delivered'[k].listener = eventListeners[i]

C22_EveryChangeNotifies == [][C22_ChangingCallStep]_vars

(***************************************************************************)
(* C23: emit invokes the listeners subscribed at the time of the emit      *)
(* synchronously, in subscription order and each at most once, all with    *)
(* the emitted event; a listener is invoked unless a listener invoked      *)
(* before it in the same emit threw or unsubscribed it; a listener whose   *)
(* unsubscribe function has been called is no longer subscribed and is     *)
(* invoked by no later emit.                                               *)
(* As stated (each subscribed listener exactly once) it is refuted: the    *)
(* forEach of emit has no error isolation, so the listeners after one that *)
(* throws are not invoked, and a Set's forEach does not visit an element   *)
(* deleted before its turn.                                                *)
(***************************************************************************)
\* the listeners the step invoked, in the order of the invocations
C23_Invoked == [k \in 1..Len(delivered') |-> delivered'[k].listener]

\* a listener invoked before the i-th subscriber threw or unsubscribed it
C23_CutOff(i) ==
  \E p \in 1..(i - 1) :
    /\ \E k \in 1..Len(C23_Invoked) : C23_Invoked[k] = eventListeners[p]
    /\ \/ ListenerDoes(eventListeners[p]).kind = "throws"
       \/ /\ ListenerDoes(eventListeners[p]).kind = "unsubscribes"
          /\ ListenerDoes(eventListeners[p]).target = eventListeners[i]

C23_EmitStepAsStated ==
  Len(emitted') = 1 =>
    /\ C23_Invoked = eventListeners
    /\ \A k \in 1..Len(delivered') : delivered'[k].event = emitted'[1]

C23_EachExactlyOnce == [][C23_EmitStepAsStated]_vars

C23_EmitStep ==
  /\ Len(emitted') = 1 =>
       /\ \A k \in 1..Len(delivered') :
            /\ delivered'[k].event = emitted'[1]
            /\ PositionOf(eventListeners, C23_Invoked[k]) >= 1
            /\ \A j \in 1..(k - 1) :
                 PositionOf(eventListeners, C23_Invoked[j])
                   < PositionOf(eventListeners, C23_Invoked[k])
       /\ \A i \in 1..Len(eventListeners) :
            (\E k \in 1..Len(C23_Invoked) : C23_Invoked[k] = eventListeners[i])
              <=> ~C23_CutOff(i)
  /\ lastCall'.op = "unsubscribe" =>
       PositionOf(eventListeners', lastCall'.arg) = 0

C23_InOrderUntilCutOff == [][C23_EmitStep]_vars

\* an emit has invoked three listeners, the first of which unsubscribed
\* itself
C23_Witness ==
  /\ pc = "returned"
  /\ Len(emitted) = 1
  /\ Len(delivered) = 3
  /\ delivered[1].listener = "LOnce"
  /\ Len(eventListeners) = 2

(***************************************************************************)
(* C25: when destroy returns the Map has no component id, isListening is   *)
(* false and the window has no handler of the manager; a key event starts  *)
(* a pass only while a handler is attached, and the only call that         *)
(* attaches one is register, which sets isListening again (window          *)
(* defined).  So no callback runs for a key event after destroy until a    *)
(* register call.                                                          *)
(***************************************************************************)
C25_Step ==
  /\ lastCall'.op = "destroy" =>
       /\ shortcuts' = <<>>
       /\ ~isListening'
       /\ attached' = <<>>
  /\ (pc = "idle" /\ pc' = "dispatch") => attached = << handleKeyDown >>
  /\ (attached = <<>> /\ attached' # <<>>) => lastCall'.op = "register"
  /\ (lastCall'.op = "register" /\ windowDefined) =>
       /\ isListening'
       /\ attached' = << handleKeyDown >>

C25_DestroyDetaches == [][C25_Step]_vars

\* destroy has returned on a manager that had created registrations
C25_Witness ==
  /\ pc = "returned"
  /\ lastCall.op = "destroy"
  /\ windowDefined
  /\ nextId > 1
  /\ shortcuts = <<>>
  /\ attached = <<>>

(***************************************************************************)
(* C26: no two registrations ever created, removed ones included, have the *)
(* same id, and the id of a registration never changes.                    *)
(* Refuted: an id is the millisecond of its creation and nine characters   *)
(* of a random number's text; two registrations made in one millisecond    *)
(* whose random texts agree in those characters get the same id.           *)
(***************************************************************************)
C26_IdsUnique ==
  \A r1 \in DOMAIN generated : \A r2 \in DOMAIN generated :
    r1 # r2 => generated[r1] # generated[r2]

(***************************************************************************)
(* C27: the dispatch of one key event terminates whatever the callbacks    *)
(* do, as long as each of them returns: every iteration of the loops of    *)
(* handleKeyDown leaves fewer registrations to visit than there were       *)
(* before it, also when the callback it invoked registers a shortcut with  *)
(* the same combination under the same owner.                              *)
(* Refuted: register pushes onto the array the inner loop iterates, so     *)
(* the iteration that invokes such a callback leaves as many registrations *)
(* to visit as before; a callback that registers itself again keeps the    *)
(* loop from ever reaching the end of the array.                           *)
(***************************************************************************)
\* the registrations the loops have yet to visit from position (i, j) on
RECURSIVE C27_LeftToVisit(_, _, _, _)
C27_LeftToVisit(m, sn, i, j) ==
  IF i > Len(sn) THEN 0
  ELSE (IF Len(SnapList(m, sn[i])) >= j
          THEN Len(SnapList(m, sn[i])) - (j - 1) ELSE 0)
         + C27_LeftToVisit(m, sn, i + 1, 1)

C27_IterationStep ==
  (pc = "dispatch" /\ pc' = "dispatch" /\ Len(trace') = Len(trace) + 1) =>
    C27_LeftToVisit(shortcuts', snap', oi', si')
      < C27_LeftToVisit(shortcuts, snap, oi, si)

C27_EveryIterationNearerTheEnd == [][C27_IterationStep]_vars

(***************************************************************************)
(* C28: enable and disable change nothing but the enabled flag of the      *)
(* owner's registrations whose canonical form is that of one of the texts: *)
(* the Map, so every list with its length and order, is the same, every    *)
(* registration not named is the same, a named one differs in enabled      *)
(* alone, and isListening, the window's handler and the listeners are the  *)
(* same.                                                                   *)
(***************************************************************************)
C28_FlagStep ==
  lastCall'.op \in {"enable", "disable"} =>
    LET named == NamedBy(shortcuts, objs, lastCall'.componentId, lastCall'.arg)
    IN /\ shortcuts' = shortcuts
       /\ isListening' = isListening
       /\ attached' = attached
       /\ eventListeners' = eventListeners
       /\ nextId' = nextId
       /\ DOMAIN objs' = DOMAIN objs
       /\ \A r \in DOMAIN objs :
            objs'[r] = IF r \in named
                         THEN [objs[r] EXCEPT
                                 !.enabled = (lastCall'.op = "enable")]
                         ELSE objs[r]

C28_OnlyTheFlagChanges == [][C28_FlagStep]_vars

\* an enable has returned that named one registration of the owner and
\* left another one of the same owner disabled
C28_Witness ==
  /\ pc = "returned"
  /\ lastCall.op = "enable"
  /\ LET named == NamedBy(shortcuts, objs, lastCall.componentId, lastCall.arg)
         list == getComponentKeys(Cur, lastCall.componentId)
     IN /\ \E r \in named : objs[r].enabled
        /\ \E k \in 1..Len(list) : list[k] \notin named /\ ~objs[list[k]].enabled

(***************************************************************************)
(* C29: when register, deregister, enable, disable or clearComponent       *)
(* invokes a listener, the operation has made all its changes: what the    *)
(* listener reads through getAllShortcuts, getComponentKeys and            *)
(* hasComponent, and isListening, are what they are when the operation     *)
(* returns.                                                                *)
(***************************************************************************)
C29_ListenerStep ==
  lastCall'.op \in {"register", "deregister", "enable", "disable", "clear"} =>
    /\ Len(observed') = Len(delivered')
    /\ \A k \in 1..Len(observed') :
         /\ observed'[k].shortcuts = View(shortcuts', objs')
         /\ observed'[k].isListening = isListening'

C29_ListenersSeeTheResult == [][C29_ListenerStep]_vars

\* a deregister that removed the last registration has invoked a listener,
\* which read an empty Map and isListening false
C29_Witness ==
  /\ pc = "returned"
  /\ lastCall.op = "deregister"
  /\ lastCall.had
  /\ Len(observed) = 1
  /\ observed[1].shortcuts = <<>>
  /\ ~observed[1].isListening
  /\ windowDefined

(***************************************************************************)
(* C30: a callback that throws during a pass is not caught: the exception  *)
(* leaves handleKeyDown, so no registration after it is visited for that   *)
(* event; the pass itself, the callbacks' own manager calls apart, leaves  *)
(* the Map, the registrations, isListening, the window's handler and the   *)
(* listeners unchanged, and after the pass the manager waits for the next  *)
(* key event as after any other pass.                                      *)
(***************************************************************************)
C30_ThrowStep ==
  /\ (pc = "dispatch" /\ lastCall'.op \in {"none", "throw"}) =>
       /\ shortcuts' = shortcuts
       /\ View(shortcuts', objs') = View(shortcuts, objs)
       /\ nextId' = nextId
       /\ isListening' = isListening
       /\ attached' = attached
       /\ eventListeners' = eventListeners
  /\ lastCall' = Made(Throw, shortcuts) =>
       /\ pc' = "dispatch"
       /\ oi' > Len(snap')
       /\ trace'[Len(trace')].outcome = "fired"
  /\ (pc = "dispatch" /\ pc' = "idle") =>
       /\ snap' = <<>>
       /\ (attached' # <<>>) = isListening'
       /\ shortcuts' = shortcuts
       /\ isListening' = isListening

C30_ThrowLeavesHandler == [][C30_ThrowStep]_vars

\* a callback has thrown and the pass is over with a registration of the
\* start never visited
C30_Witness ==
  /\ pc = "dispatch"
  /\ oi > Len(snap)
  /\ trace # <<>>
  /\ trace[Len(trace)].call = Made(Throw, shortcuts)
  /\ Len(Flatten(startView)) > Len(trace)

(***************************************************************************)
(* Registrations whose key text names no key.  A client registers one or   *)
(* two definitions, malformed texts among them, and the platform delivers  *)
(* events of a product of keys (the empty key identifier of a synthetic    *)
(* event among them), modifier flags and targets.                          *)
(***************************************************************************)
TextCtrl == <<"C","t","r","l">>

\* key texts without a key: empty, blank, separators only, modifiers only
MalformedTexts ==
  { <<>>, <<" ">>, <<"+">>, TextCtrl, <<"C","t","r","l","+">>,
    <<"C","t","r","l","+","S","h","i","f","t">>, <<"C","m","d","+","A","l","t">> }

MalformedDefinitions == {Def(t, "f", NoOptions) : t \in MalformedTexts}

MalformedCalls ==
  RegisterCalls({"a", "b"},
    {<<d>> : d \in MalformedDefinitions}
      \cup {<<Def(TextCtrlS, "g", NoOptions), Def(TextCtrl, "f", NoOptions)>>})

\* event.key with the event.code it comes with; new KeyboardEvent('keydown')
\* has the key "" and the code ""
MalformedKeyCodes ==
  { << <<"s">>, "KeyS" >>, << <<" ">>, "Space" >>, << KeyUnidentified, "Space" >>,
    << <<>>, "" >> }

MalformedEvents ==
  { KeyEvent(kc[1], kc[2], c, a, sh, m, t) :
      kc \in MalformedKeyCodes, c \in BOOLEAN, a \in BOOLEAN, sh \in BOOLEAN,
      m \in BOOLEAN, t \in {Div, Input} }

MalformedNext ==
  \/ Register(MalformedCalls)
  \/ CallReturn
  \/ KeyDown(MalformedEvents)
  \/ DispatchStep(NoCalls)
  \/ HandlerReturn

MalformedSpec == Init /\ [][MalformedNext]_vars

(***************************************************************************)
(* C31: register does not reject a key text without a key (the empty       *)
(* string, modifiers only): the registration it makes has the empty key,   *)
(* is appended to the owner's array like any other, the owner's entry is   *)
(* there and (a window being there) the manager listens; and no pass fires *)
(* a registration with the empty key for an event whose key is not empty.  *)
(***************************************************************************)
C31_RegisterStep ==
  (pc = "idle" /\ lastCall'.op = "register") =>
    LET id == lastCall'.componentId
        defs == lastCall'.arg
        old == IF MapHas(shortcuts, id) THEN MapGet(shortcuts, id) ELSE <<>>
        new == MapGet(shortcuts', id)
    IN /\ pc' = "returned"
       /\ MapHas(shortcuts', id)
       /\ Len(new) = Len(old) + Len(defs)
       /\ SubSeq(new, 1, Len(old)) = old
       /\ \A k \in 1..Len(defs) :
            LET shortcut == objs'[new[Len(old) + k]]
            IN /\ shortcut.enabled
               /\ shortcut.callback = defs[k].callback
               /\ defs[k].keys.text \in MalformedTexts => shortcut.keys.key = <<>>
       /\ windowDefined => (isListening' /\ attached' # <<>>)

C31_DispatchStep ==
  (pc = "dispatch" /\ Len(trace') = Len(trace) + 1) =>
    LET entry == trace'[Len(trace')]
    IN (entry.shortcut.keys.key = <<>> /\ event.key # <<>>) =>
         entry.outcome = "nomatch"

C31_EmptyKeyStep == C31_RegisterStep /\ C31_DispatchStep

C31_EmptyKeyRegisteredNeverFired == [][C31_EmptyKeyStep]_vars

\* a pass has visited a registration made from "Ctrl", for a ctrl+s event
\* whose modifiers are the registration's, and has not fired it
C31_Witness ==
  /\ pc = "dispatch"
  /\ event.key = <<"s">>
  /\ event.ctrlKey /\ ~event.altKey /\ ~event.shiftKey /\ ~event.metaKey
  /\ \E i \in 1..Len(trace) :
       /\ trace[i].shortcut.keys =
            [key |-> <<>>, ctrl |-> TRUE, alt |-> FALSE, shift |-> FALSE, meta |-> FALSE]
       /\ trace[i].outcome = "nomatch"
  /\ isListening
  /\ \E i \in 1..Len(shortcuts) : Len(shortcuts[i].list) > 0

(***************************************************************************)
(* C32: parse(text) splits the text on '+', trims and lower-cases each     *)
(* token, sets each modifier flag if and only if one of its alias tokens   *)
(* occurs, and sets key to the normalized form of the last token that is   *)
(* no modifier (the normalization table's value for a name of the table,   *)
(* the token itself otherwise; the empty key if there is no such token),   *)
(* so that a later key token overwrites an earlier one.                    *)
(* Refuted: a token that names an inherited property of the table object   *)
(* ("constructor", "__proto__") is neither passed through nor mapped to a  *)
(* key identifier: key becomes a value that is no string.                  *)
(***************************************************************************)
C32_Tokens(text) ==
  [i \in 1..Len(split(text)) |-> toLowerCase(trim(split(text)[i]))]

C32_Modifiers == CtrlTokens \cup AltTokens \cup ShiftTokens \cup MetaTokens

C32_Occurs(aliases, toks) == \E i \in 1..Len(toks) : toks[i] \in aliases

\* the normalization table: human names to key identifiers, any other
\* token unchanged
C32_Normalized(tok) ==
  IF \E p \in keyMap : p[1] = tok
    THEN (CHOOSE p \in keyMap : p[1] = tok)[2]
    ELSE tok

C32_Key(toks) ==
  LET keyTokens == {i \in 1..Len(toks) : toks[i] \notin C32_Modifiers}
  IN IF keyTokens = {} THEN <<>>
     ELSE C32_Normalized(toks[CHOOSE i \in keyTokens : \A j \in keyTokens : j <= i])

C32_Stated(text) ==
  LET toks == C32_Tokens(text)
  IN [ key |-> C32_Key(toks),
       ctrl |-> C32_Occurs(CtrlTokens, toks),
       alt |-> C32_Occurs(AltTokens, toks),
       shift |-> C32_Occurs(ShiftTokens, toks),
       meta |-> C32_Occurs(MetaTokens, toks) ]

C32_ParseAsStated ==
  ppc = "parsed" => parsed = C32_Stated(keyString)

(***************************************************************************)
(* C33: when a listener throws while register, deregister, enable, disable *)
(* or clearComponent emits its event, the call ends with that exception    *)
(* instead of returning; the Map, the registrations, isListening and the   *)
(* window's handler are the ones the operation makes when no listener is   *)
(* subscribed (emit is the operation's last statement, nothing is undone); *)
(* the listener that threw is the last one invoked, and no listener        *)
(* subscribed after it is invoked for that event.                          *)
(***************************************************************************)
C33_Ops == {"register", "deregister", "enable", "disable", "clear"}

\* the invocations of the step in which the listener throws
C33_ThrewAt ==
  {k \in 1..Len(delivered') : ListenerDoes(delivered'[k].listener).kind = "throws"}

\* what the operation of the step makes of the state when nobody listens
C33_Unheard ==
  Apply([Cur EXCEPT !.eventListeners = <<>>],
        Call(lastCall'.op, lastCall'.componentId, lastCall'.arg))

C33_EmitThrowsStep ==
  (pc = "idle" /\ lastCall'.op \in C33_Ops) =>
    /\ (pc' = "threw") <=> (C33_ThrewAt # {})
    /\ pc' \in {"threw", "returned"}
    /\ C33_ThrewAt # {} =>
         LET id == lastCall'.componentId
             thrower == delivered'[Len(delivered')].listener
         IN /\ C33_ThrewAt = {Len(delivered')}
            /\ Len(emitted') = 1
            /\ shortcuts' = C33_Unheard.shortcuts
            /\ View(shortcuts', objs') = View(C33_Unheard.shortcuts, C33_Unheard.objs)
            /\ isListening' = C33_Unheard.isListening
            /\ attached' = C33_Unheard.attached
            /\ nextId' = C33_Unheard.nextId
            /\ lastCall'.op = "register" =>
                 /\ MapHas(shortcuts', id)
                 /\ Len(MapGet(shortcuts', id)) =
                      (IF MapHas(shortcuts, id) THEN Len(MapGet(shortcuts, id)) ELSE 0)
                        + Len(lastCall'.arg)
                 /\ windowDefined => isListening'
            /\ lastCall'.op = "clear" =>
                 /\ ~MapHas(shortcuts', id)
                 /\ (windowDefined /\ shortcuts' = <<>>) => ~isListening'
            /\ lastCall'.op = "deregister" =>
                 /\ ~MapHas(shortcuts', id)
                 /\ (windowDefined /\ shortcuts' = <<>>) => ~isListening'
            /\ lastCall'.op \in {"enable", "disable"} =>
                 \A k \in 1..Len(MapGet(shortcuts', id)) :
                   objs'[MapGet(shortcuts', id)[k]].enabled = (lastCall'.op = "enable")
            /\ \A i \in 1..Len(eventListeners) :
                 i > PositionOf(eventListeners, thrower) =>
                   \A k \in 1..Len(delivered') :
                     delivered'[k].listener # eventListeners[i]

C33_ListenerThrowPropagates == [][C33_EmitThrowsStep]_vars

\* clearComponent of the only owner has ended with the exception of the
\* second of three listeners: the owner is gone, the manager has stopped
\* listening, and the third listener was not invoked
C33_Witness ==
  /\ pc = "threw"
  /\ windowDefined
  /\ lastCall.op = "clear"
  /\ lastCall.had
  /\ shortcuts = <<>>
  /\ ~isListening
  /\ attached = <<>>
  /\ eventListeners = << "L1", "LThrows", "L2" >>
  /\ Len(delivered) = 2
  /\ delivered[2].listener = "LThrows"

(***************************************************************************)
(* C34: register, deregister, enable, disable and clearComponent, called   *)
(* for one component by a client or by a callback, leave every other       *)
(* component as it is: the Map's entries of the other components are the   *)
(* same arrays of the same registrations in the same order, every          *)
(* registration in them is unchanged (its enabled flag included), and the  *)
(* other components follow one another in the Map, which is the order of   *)
(* dispatch, as before.  A component that is in the Map before and after   *)
(* the call keeps its place among the others as well.                      *)
(***************************************************************************)
\* the Map's entries of the components other than componentId, in order
C34_Others(m, componentId) ==
  SelectSeq(m, LAMBDA entry : entry.componentId # componentId)

\* the components of the Map, in order
C34_Order(m) == [i \in 1..Len(m) |-> m[i].componentId]

C34_FrameStep ==
  lastCall'.op \in {"register", "deregister", "enable", "disable", "clear"} =>
    LET id == lastCall'.componentId
        others == C34_Others(shortcuts, id)
    IN /\ C34_Others(shortcuts', id) = others
       /\ \A i \in 1..Len(others) :
            \A k \in 1..Len(others[i].list) :
              /\ others[i].list[k] \in DOMAIN objs'
              /\ objs'[others[i].list[k]] = objs[others[i].list[k]]
       /\ (MapHas(shortcuts, id) /\ MapHas(shortcuts', id)) =>
            C34_Order(shortcuts') = C34_Order(shortcuts)

C35_DisabledFor(m, o, componentId, keys) ==
  LET list == IF MapHas(m, componentId) THEN MapGet(m, componentId) ELSE <<>>
  IN {r \in {list[i] : i \in 1..Len(list)} :
        /\ ~o[r].enabled
        /\ keyCombinationToString(o[r].keys) = keyCombinationToString(keys)}

C35_FireStep ==
  (pc = "dispatch" /\ Len(trace') = Len(trace) + 1
     /\ trace'[Len(trace')].outcome = "fired") =>
    LET shortcut == trace'[Len(trace')].shortcut
    IN C35_DisabledFor(shortcuts, objs, shortcut.componentId, shortcut.keys) = {}

C35_DisabledUntilEnabled == [][C35_FireStep]_vars

(***************************************************************************)
(* useShortcut(keyString, callback, options).  A component that calls the  *)
(* hook is unmounted, "mounting" (rendered for the first time, its effects *)
(* not yet run), "mounted", "rerendered" (rendered again with the same     *)
(* arguments, its effects not yet run) or "unmounting".  The hook calls    *)
(* useKeyboardShortcuts(componentId), whose cleanup is CleanupEffect, and  *)
(* has two effects of its own, neither with a cleanup: one registers the   *)
(* shortcut, one enables or disables it.                                   *)
(***************************************************************************)
\* the definition the first effect registers: options is
\* { ...registerOptions, enabled } with enabled = true by default, spread
\* over the (empty) default options of useKeyboardShortcuts(componentId)
useShortcutDefinitions(h) ==
  << Def(TextCtrlS, "f",
         SpreadOptions(NoOptions, HookOptions(h) \cup {<< "enabled", TRUE >>})) >>

\* Object.is of each dependency of the first effect with its value at the
\* render before, the arguments being unchanged: keyString (a string),
\* register (useCallback on the component id), enabled (a boolean) and
\* registerOptions, the rest object of a destructuring, which is a new
\* object at every render
registerEffectDepsSame == << TRUE, TRUE, TRUE, FALSE >>

\* the same for the second effect: enabled, keyString, enableShortcut and
\* disableShortcut (useCallback on the component id)
enableEffectDepsSame == << TRUE, TRUE, TRUE, TRUE >>

\* React runs an effect after the first render, and after a later render
\* when one of its dependencies is not the same
EffectRuns(first, depsSame) ==
  first \/ \E i \in 1..Len(depsSame) : ~depsSame[i]

\* the component renders, for the first time or again; the model creates
\* at most MaxShortcuts objects
Render(h) ==
  /\ pc = "idle"
  /\ hooks[h] \in {"unmounted", "mounted"}
  /\ nextId <= MaxShortcuts
  /\ hooks' = [hooks EXCEPT ![h] = IF hooks[h] = "unmounted" THEN "mounting"
                                   ELSE "rerendered"]
  /\ UNCHANGED << windowDefined, shortcuts, objs, nextId, isListening, attached,
                  eventListeners, pc, event, snap, oi, si, emitted, delivered, observed,
                  lastCall, trace, nested, startView, cleared, startCleared >>
  /\ UNCHANGED parseVars
  /\ UNCHANGED idVars

\* React runs the effects of the render, in the order of the hook's
\* useEffect calls
useShortcutEffects(h) ==
  /\ pc = "idle"
  /\ hooks[h] \in {"mounting", "rerendered"}
  /\ LET first == hooks[h] = "mounting"
         call == Call("register", HookId(h), useShortcutDefinitions(h))
         M1 == IF EffectRuns(first, registerEffectDepsSame)
                 THEN register(Cur, HookId(h), useShortcutDefinitions(h))
                 ELSE Cur
         M2 == IF EffectRuns(first, enableEffectDepsSame)
                 THEN enable(M1, HookId(h), << TextCtrlS >>)
                 ELSE M1
     IN /\ Allowed(call)
        /\ Returned(call, M2)
  /\ hooks' = [hooks EXCEPT ![h] = "mounted"]

UseShortcutNext ==
  \/ \E h \in Hooks : Render(h)
  \/ \E h \in Hooks : useShortcutEffects(h)
  \/ \E h \in Hooks : Unmount(h)
  \/ \E h \in Hooks : CleanupEffect(h)
  \/ CallReturn
  \/ KeyDown(Events)
  \/ DispatchStep(NoCalls)
  \/ HandlerReturn

UseShortcutSpec == Init /\ [][UseShortcutNext]_vars

(***************************************************************************)
(* C36: whatever the number of renders of a mounted component that calls   *)
(* useShortcut with unchanged arguments, the Map holds exactly one         *)
(* registration under the hook's component id once the effects have run,   *)
(* and a pass invokes the callback of that component at most once.         *)
(* Refuted: the effect that registers depends on registerOptions, a new    *)
(* object at every render, and has no cleanup: every render adds one more  *)
(* registration, and one key event invokes the callback once for each.     *)
(***************************************************************************)
C36_FiredOf(h) ==
  SelectSeq(FiredEntries, LAMBDA t : t.shortcut.componentId = HookId(h))

C36_OneRegistrationPerHook ==
  \A h \in Hooks :
    /\ hooks[h] = "mounted" =>
         /\ MapHas(shortcuts, HookId(h))
         /\ Len(MapGet(shortcuts, HookId(h))) = 1
    /\ Len(C36_FiredOf(h)) <= 1

====
